---------------------------- MODULE Spec2Model ----------------------------
(***************************************************************************)
(* A model of the pyrite spectral path tracer:                             *)
(*   - math.rs    Interpolated::get, Segments, schlick, the operators      *)
(*   - tracer.rs  trace, trace_branch, trace_direct                        *)
(*                                                                         *)
(* f32/f64 values are modelled as exact rationals <<n, d>> (d > 0, lowest  *)
(* terms); a denominator of 0 stands for a non-finite float.               *)
(***************************************************************************)
EXTENDS Integers, Sequences, FiniteSets, TLC

(***************************************************************************)
(* Bounds of the model.                                                    *)
(***************************************************************************)
\* number of grid positions a spectrum point may sit on
NumX == 5
\* largest y value of a spectrum point
MaxY == 1
\* largest number of segments asked of segments_between
MaxSegments == 4
\* largest value of an operand of an operator
MaxOperand == 1
\* largest max_bounces trace is called with
MaxBounces == 2
\* largest light_samples trace is called with
MaxLightSamples == 2

\* render: at most this many tiles
MaxTiles == 3

\* render: at most this many workers in the pool
MaxWorkers == 2

\* render_tile: renderer.pixel_samples is at most this
MaxPixelSamples == 2

\* render_tile: renderer.spectrum_samples is at most this
MaxSpectrumSamples == 3

(***************************************************************************)
(* Rational arithmetic standing for the float arithmetic of the code.      *)
(***************************************************************************)
Abs(i) == IF i < 0 THEN -i ELSE i

Sgn(i) == IF i < 0 THEN -1 ELSE IF i > 0 THEN 1 ELSE 0

RECURSIVE Gcd(_, _)
Gcd(a, b) == IF b = 0 THEN a ELSE Gcd(b, a % b)

\* the rational n/d in lowest terms with a positive denominator
R(n, d) ==
    IF d = 0 THEN <<Sgn(n), 0>>
    ELSE LET g == Gcd(Abs(n), Abs(d))
         IN  <<Sgn(d) * (n \div g), Abs(d) \div g>>

Num(i) == <<i, 1>>

\* a denominator of 0 is a non-finite float: <<1, 0>> and <<-1, 0>> are the
\* infinities, <<0, 0>> is NaN
NaN == <<0, 0>>

Finite(a) == a[2] # 0

RAdd(a, b) ==
    IF ~Finite(a) /\ ~Finite(b)
    THEN IF a[1] = b[1] THEN a ELSE NaN
    ELSE R(a[1] * b[2] + b[1] * a[2], a[2] * b[2])

RSub(a, b) ==
    IF ~Finite(a) /\ ~Finite(b)
    THEN IF a[1] = -b[1] THEN a ELSE NaN
    ELSE R(a[1] * b[2] - b[1] * a[2], a[2] * b[2])

RMul(a, b) == R(a[1] * b[1], a[2] * b[2])

RDiv(a, b) == R(a[1] * b[2], a[2] * b[1])

RNeg(a) == <<-a[1], a[2]>>

\* every comparison with NaN is false
RLt(a, b) ==
    IF a = NaN \/ b = NaN THEN FALSE
    ELSE IF ~Finite(a) /\ ~Finite(b) THEN a[1] < b[1]
    ELSE a[1] * b[2] < b[1] * a[2]

RLe(a, b) ==
    IF a = NaN \/ b = NaN THEN FALSE
    ELSE IF ~Finite(a) /\ ~Finite(b) THEN a[1] <= b[1]
    ELSE a[1] * b[2] <= b[1] * a[2]

\* ==, false on NaN
REq(a, b) == a = b /\ a # NaN

RGt(a, b) == RLt(b, a)

RGe(a, b) == RLe(b, a)

\* f32::min and f32::max: of a NaN and a number, the number
RMin(a, b) == IF a = NaN THEN b ELSE IF RLt(b, a) THEN b ELSE a

RMax(a, b) == IF a = NaN THEN b ELSE IF RGt(b, a) THEN b ELSE a

Zero == Num(0)

One == Num(1)

(***************************************************************************)
(* Option<T>: None is the empty sequence, Some(v) the sequence <<v>>.      *)
(***************************************************************************)
None == <<>>

Some(v) == <<v>>

IsSome(o) == o # <<>>

(***************************************************************************)
(* Spectrum points: (x, y) pairs, a slice indexed from 0 as in the code.   *)
(***************************************************************************)
At(points, i) == points[i + 1]

GridX == {Num(400 + 50 * i) : i \in 0 .. NumX - 1}

GridY == {Num(y) : y \in 0 .. MaxY}

\* the lists of k points sorted by strictly increasing x over the grid
RECURSIVE SortedLists(_)
SortedLists(k) ==
    IF k = 0 THEN {<<>>}
    ELSE {Append(p, q) : <<p, q>> \in
            {pq \in SortedLists(k - 1) \X (GridX \X GridY) :
                pq[1] = <<>> \/ RLt(pq[1][Len(pq[1])][1], pq[2][1])}}

PointLists == UNION {SortedLists(k) : k \in 0 .. NumX}

\* the inputs: every grid position, the midpoints, and positions outside
Inputs == {R(800 + 50 * i, 2) : i \in -2 .. 2 * NumX + 2}

VARIABLES
    points,       \* Interpolated.points
    input,        \* the argument of the last call of get (None before it)
    result,       \* what that call returned
    seg,          \* the Segments iterator (None before segments_between)
    yielded,      \* the items Segments::next has returned so far, in order
    segEnded,     \* Segments::next has returned None
    mathExpr,     \* the Math value last evaluated (None before it)
    mathCtx,      \* the render context it was evaluated on
    mathResult,   \* what Math::get returned
    schlickIn,    \* the arguments of the last call of schlick (None before it)
    schlickOut,   \* what that call returned
    sky,          \* World.sky: the colour of a miss
    lights,       \* World.lights.len()
    traceArgs,    \* the arguments of trace (None before the call)
    tpc,          \* where trace is: idle, loop, disperse, branch, done, panic
    bounce,       \* the index of the bounce loop of trace
    traced,       \* the alive wavelength samples
    wavelengths,  \* their wavelengths
    completed,    \* the finished samples
    pairs,        \* Disperse: the (sample, reflection) pairs still to process
    branch,       \* trace_branch: its sample and the iterations it has left
    firstHit,     \* what the first intersection of trace gave (None before it)
    allMirror,    \* every reflection so far was Reflect{color 1, scale 1, no brdf}
    ended,        \* how trace ended: miss, emit, disperse, exhausted
    directLight,  \* the last call of trace_direct: its arguments and result
    hit,          \* what the last intersection returned, and the light draw there
    queries,      \* the calls of world.intersect: by trace, by the current trace_branch
    rpc,          \* where render is: idle, announced, working, done
    num_tiles,    \* render: tiles.len()
    workers,      \* render: the number of workers of the pool
    tileState,    \* render: each tile queued, running or finished
    progress,     \* render: the counter of the completion callback
    statuses,     \* render: the progress values on_status was called with
    notified,     \* render: the tiles the completion callback ran for
    tile_count,   \* main.rs render: tiles.len()
    threads,      \* main.rs render: the threads of the TaskPool
    pending,      \* main.rs render: config.pending
    completedTiles, \* main.rs render: config.completed
    spawned,      \* main.rs render: the tasks handed to pool.execute so far
    taskPc,       \* each task: queued, rendering, finished or panicked
    taskTile,     \* the tile each task popped (0 before the pop)
    pushes,       \* how often each tile was pushed to completed
    mpc,          \* where the main thread is: spawn, loop, collect, done
    tile_counter, \* main.rs render: tile_counter
    copied,       \* how often each tile was copied into the pixel buffer
    tileArea,     \* render_tile: tile.area()
    pixel_samples,    \* render_tile: renderer.pixel_samples
    spectrum_samples, \* render_tile: renderer.spectrum_samples
    tilePc,       \* where render_tile is: idle, loop, done
    tileIter,     \* render_tile: the iterations of its loop so far
    traceCalls,   \* render_tile: the calls of trace so far
    position,     \* render_tile: the pixel of the last sampled position
    mainExposed,  \* per pixel, the main samples the film was exposed to
    extraExposed, \* per pixel, the additional samples it was exposed to
    tilePath,     \* the path of the last iteration and what contribute returned
    contributeCalls, \* the calls of contribute in the last iteration
    exprIn,       \* the Expression from_expression was called on (None before)
    exprE,        \* the extra type E of the Math being built
    exprT,        \* the value type T: what it accepts, how it rejects
    exprOut,      \* what from_expression returned
    cpc,          \* where Curve::get is: idle, loop, returned, panicked
    cmin,         \* Interpolated::get: min
    cmax,         \* Interpolated::get: max
    creads        \* the indices get has read points at

getVars == <<points, input, result>>

segVars == <<seg, yielded, segEnded>>

mathVars == <<mathExpr, mathCtx, mathResult, schlickIn, schlickOut>>

traceVars ==
    <<sky, lights, traceArgs, tpc, bounce, traced, wavelengths, completed,
      pairs, branch, firstHit, allMirror, ended, directLight, hit,
      queries>>

renderVars ==
    <<rpc, num_tiles, workers, tileState, progress, statuses, notified>>

poolVars ==
    <<tile_count, threads, pending, completedTiles, spawned, taskPc, taskTile,
      pushes, mpc, tile_counter, copied>>

tileVars ==
    <<tileArea, pixel_samples, spectrum_samples, tilePc, tileIter, traceCalls,
      position, mainExposed, extraExposed, tilePath, contributeCalls>>

exprVars == <<exprIn, exprE, exprT, exprOut>>

curveVars == <<cpc, cmin, cmax, creads>>

driverVars == <<renderVars, poolVars, tileVars, exprVars, curveVars>>

vars == <<getVars, segVars, mathVars, traceVars, driverVars>>

\* the parts of the state a specification does not use stay as constructed
GetIdle == points = <<>> /\ input = None /\ result = None

SegIdle == seg = None /\ yielded = <<>> /\ segEnded = FALSE

MathIdle ==
    /\ mathExpr = None
    /\ mathCtx = None
    /\ mathResult = None
    /\ schlickIn = None
    /\ schlickOut = None

(***************************************************************************)
(* Interpolated::get  (math.rs 59-105)                                     *)
(***************************************************************************)
\* a binary search that keeps the half that does not hold the input
RECURSIVE GetSearchWrongHalf(_, _, _, _)
GetSearchWrongHalf(pts, in, min, max) ==
    IF max > min + 1
    THEN LET check == (max + min) \div 2
             check_x == At(pts, check)[1]
             check_y == At(pts, check)[2]
         IN  IF REq(check_x, in)
             THEN [found |-> TRUE, y |-> check_y, min |-> min, max |-> max]
             ELSE IF RGt(check_x, in)
                  THEN GetSearchWrongHalf(pts, in, check, max)
                  ELSE GetSearchWrongHalf(pts, in, min, check)
    ELSE [found |-> FALSE, y |-> Zero, min |-> min, max |-> max]

\* the while loop of lines 80-93: either a hit on a point or the final pair
RECURSIVE GetSearch(_, _, _, _)
GetSearch(pts, in, min, max) ==
    IF max > min + 1
    THEN LET check == (max + min) \div 2
             check_x == At(pts, check)[1]
             check_y == At(pts, check)[2]
         IN  IF REq(check_x, in)
             THEN [found |-> TRUE, y |-> check_y, min |-> min, max |-> max]
             ELSE IF RGt(check_x, in)
                  THEN GetSearch(pts, in, min, check)
                  ELSE GetSearch(pts, in, check, max)
    ELSE [found |-> FALSE, y |-> Zero, min |-> min, max |-> max]

\* a lookup that clamps to the boundary value outside the range
InterpolatedGetClamp(pts, in) ==
    IF Len(pts) = 0 THEN Zero
    ELSE IF RGe(At(pts, 0)[1], in) THEN At(pts, 0)[2]
    ELSE IF RLe(At(pts, Len(pts) - 1)[1], in) THEN At(pts, Len(pts) - 1)[2]
    ELSE LET s == GetSearch(pts, in, 0, Len(pts) - 1)
             min_x == At(pts, s.min)[1]
             min_y == At(pts, s.min)[2]
             max_x == At(pts, s.max)[1]
             max_y == At(pts, s.max)[2]
         IN  IF s.found THEN s.y
             ELSE RAdd(min_y,
                       RDiv(RMul(RSub(max_y, min_y), RSub(in, min_x)),
                            RSub(max_x, min_x)))

InterpolatedGet(pts, in) ==
    IF Len(pts) = 0 THEN Zero
    ELSE IF RGe(At(pts, 0)[1], in) THEN Zero
    ELSE IF RLe(At(pts, Len(pts) - 1)[1], in) THEN Zero
    ELSE LET s == GetSearch(pts, in, 0, Len(pts) - 1)
             min_x == At(pts, s.min)[1]
             min_y == At(pts, s.min)[2]
             max_x == At(pts, s.max)[1]
             max_y == At(pts, s.max)[2]
         IN  IF s.found THEN s.y
             ELSE IF RLt(in, min_x) THEN Zero
             ELSE IF RGt(in, max_x) THEN Zero
             ELSE RAdd(min_y,
                       RDiv(RMul(RSub(max_y, min_y), RSub(in, min_x)),
                            RSub(max_x, min_x)))

RenderIdle ==
    /\ rpc = "idle"
    /\ num_tiles = 0
    /\ workers = 0
    /\ tileState = <<>>
    /\ progress = 0
    /\ statuses = <<>>
    /\ notified = <<>>

PoolIdle ==
    /\ tile_count = 0
    /\ threads = 0
    /\ pending = <<>>
    /\ completedTiles = <<>>
    /\ spawned = 0
    /\ taskPc = <<>>
    /\ taskTile = <<>>
    /\ pushes = <<>>
    /\ mpc = "idle"
    /\ tile_counter = 0
    /\ copied = <<>>

TileIdle ==
    /\ tileArea = 0
    /\ pixel_samples = 0
    /\ spectrum_samples = 0
    /\ tilePc = "idle"
    /\ tileIter = 0
    /\ traceCalls = 0
    /\ position = 0
    /\ mainExposed = <<>>
    /\ extraExposed = <<>>
    /\ tilePath = None
    /\ contributeCalls = [additional |-> 0, main |-> 0]

ExprIdle == exprIn = None /\ exprE = None /\ exprT = None /\ exprOut = None

CurveIdle == cpc = "idle" /\ cmin = 0 /\ cmax = 0 /\ creads = {}

DriverIdle == RenderIdle /\ PoolIdle /\ TileIdle /\ ExprIdle /\ CurveIdle

TraceIdle ==
    /\ sky = None
    /\ lights = 0
    /\ traceArgs = None
    /\ tpc = "idle"
    /\ bounce = 0
    /\ traced = <<>>
    /\ wavelengths = <<>>
    /\ completed = <<>>
    /\ pairs = <<>>
    /\ branch = None
    /\ firstHit = None
    /\ allMirror = TRUE
    /\ ended = "no"
    /\ directLight = None
    /\ hit = None
    /\ queries = [trace |-> 0, branch |-> 0]

InitGet ==
    /\ points \in PointLists
    /\ input = None
    /\ result = None
    /\ SegIdle
    /\ MathIdle
    /\ TraceIdle
    /\ DriverIdle

\* one call of get (pure: a behaviour observes one call)
Get ==
    \E in \in Inputs :
        /\ input = None
        /\ input' = Some(in)
        /\ result' = Some(InterpolatedGet(points, in))
        /\ UNCHANGED <<points, segVars, mathVars, traceVars, driverVars>>

NextGet == Get

SpecGet == InitGet /\ [][NextGet]_vars

(***************************************************************************)
(* Properties of Interpolated::get.                                        *)
(***************************************************************************)
\* C1: for a non-empty point list sorted by strictly increasing x, get
\* called with the x of any of its points, the first and the last included,
\* returns that point's y.
C1_GetAtPointReturnsY ==
    \A i \in 1 .. Len(points) :
        input = Some(points[i][1]) => result = Some(points[i][2])

\* C2: get returns 0, never the boundary y, for every input strictly below
\* the first point's x or strictly above the last point's x, and for every
\* input when the point list is empty.
C2_GetOutsideIsZero ==
    input # None =>
        /\ Len(points) = 0 => result = Some(Zero)
        /\ Len(points) > 0 /\ RLt(input[1], points[1][1]) => result = Some(Zero)
        /\ Len(points) > 0 /\ RGt(input[1], points[Len(points)][1])
              => result = Some(Zero)

\* C2 witness: a call below the first point, whose y is not 0, returned 0.
C2_Witness ==
    /\ input # None
    /\ Len(points) > 0
    /\ RLt(input[1], points[1][1])
    /\ points[1][2] # Zero
    /\ result = Some(Zero)

\* spec section 8, E4: the points and the expected samples
E4Points == <<<<Num(400), Num(0)>>, <<Num(500), Num(1)>>, <<Num(600), Num(0)>>>>

E4Samples ==
    {<<Num(400), Num(0)>>, <<Num(450), R(1, 2)>>, <<Num(500), Num(1)>>,
     <<Num(550), R(1, 2)>>, <<Num(600), Num(0)>>, <<Num(700), Num(0)>>}

\* C3: for an input strictly between two adjacent points i and i+1 get
\* returns y_i + (y_i+1 - y_i)(x - x_i)/(x_i+1 - x_i), stated here as
\* (result - y_i)(x_i+1 - x_i) = (y_i+1 - y_i)(x - x_i); and the points
\* [(400,0),(500,1),(600,0)] give 0, 0.5, 1, 0.5, 0, 0 at 400 .. 700.
C3_GetInterpolates ==
    input # None =>
        /\ \A i \in 1 .. Len(points) - 1 :
              RLt(points[i][1], input[1]) /\ RLt(input[1], points[i + 1][1])
              => RMul(RSub(result[1], points[i][2]),
                      RSub(points[i + 1][1], points[i][1]))
                 = RMul(RSub(points[i + 1][2], points[i][2]),
                        RSub(input[1], points[i][1]))
        /\ points = E4Points =>
              \A e \in E4Samples : input[1] = e[1] => result[1] = e[2]

\* C3 witness: a call strictly inside the last interval of a list of at
\* least four points (two steps of the binary search) returned 1/2.
C3_Witness ==
    /\ input # None
    /\ Len(points) >= 4
    /\ RLt(points[Len(points) - 1][1], input[1])
    /\ RLt(input[1], points[Len(points)][1])
    /\ result = Some(R(1, 2))

(***************************************************************************)
(* Segments  (math.rs 112-263).  The Peekable slice iterator is the index  *)
(* pos of the next point it would return.                                  *)
(***************************************************************************)
\* the while-let loop of Segments::new, lines 143-165
RECURSIVE NewScan(_, _, _, _, _, _, _, _)
NewScan(pts, pos, start, end, sb, sa, eb, ea) ==
    IF pos < Len(pts)
    THEN LET x == At(pts, pos)[1]
             y == At(pts, pos)[2]
         IN  IF RGe(x, end) /\ IsSome(ea)
             THEN [pos |-> pos, sb |-> sb, sa |-> sa, eb |-> eb, ea |-> ea]
             ELSE NewScan(pts, pos + 1, start, end,
                          IF RLe(x, start) THEN Some(<<x, y>>) ELSE sb,
                          IF RGe(x, start) THEN Some(<<x, y>>) ELSE sa,
                          IF RLe(x, end) THEN Some(<<x, y>>) ELSE eb,
                          IF RGe(x, end) THEN Some(<<x, y>>) ELSE ea)
    ELSE [pos |-> pos, sb |-> sb, sa |-> sa, eb |-> eb, ea |-> ea]

\* Segments::new, lines 123-176 (segments < 1 panics before anything is built)
SegmentsNew(pts, min, max, segments) ==
    LET segment_size == RDiv(RSub(max, min), Num(segments))
        start == min
        end == RAdd(min, segment_size)
        s == NewScan(pts, 0, start, end, None, None, None, None)
    IN  [from |-> min,
         segment_size |-> segment_size,
         segments |-> segments,
         current_segment |-> 0,
         around_start |-> <<s.sb, s.sa>>,
         around_end |-> <<s.eb, s.ea>>,
         pos |-> s.pos]

\* the while-let loop of Segments::next, lines 242-256
RECURSIVE NextScan(_, _, _, _, _)
NextScan(pts, pos, next_end, eb, ea) ==
    IF pos < Len(pts)
    THEN LET x == At(pts, pos)[1]
             y == At(pts, pos)[2]
         IN  IF RGe(x, next_end) /\ IsSome(ea)
             THEN [pos |-> pos, eb |-> eb, ea |-> ea]
             ELSE NextScan(pts, pos + 1, next_end,
                           IF RLe(x, next_end) THEN Some(<<x, y>>) ELSE eb,
                           IF RGe(x, next_end) THEN Some(<<x, y>>) ELSE ea)
    ELSE [pos |-> pos, eb |-> eb, ea |-> ea]

\* the two matches of lines 190-218: the value at x between a pair of points
AroundValue(around, x) ==
    IF IsSome(around[1]) /\ IsSome(around[2])
    THEN LET x1 == around[1][1][1]
             y1 == around[1][1][2]
             x2 == around[2][1][1]
             y2 == around[2][1][2]
         IN  IF x1 = x2 THEN Some(y1)
             ELSE LET width == RSub(x2, x1)
                      point == RDiv(RSub(x, x1), width)
                  IN  Some(RAdd(RMul(RSub(One, point), y1), RMul(point, y2)))
    ELSE IF IsSome(around[1]) THEN Some(around[1][1][2])
    ELSE IF IsSome(around[2]) THEN Some(around[2][1][2])
    ELSE None

\* Segments::next, lines 182-262: the iterator after the call and the item
SegmentsNext(s, pts) ==
    IF s.current_segment >= s.segments
    THEN [self |-> s, item |-> None]
    ELSE LET start == RAdd(RMul(Num(s.current_segment), s.segment_size), s.from)
             end == RAdd(RMul(Num(s.current_segment + 1), s.segment_size), s.from)
             start_value == AroundValue(s.around_start, start)
             end_value == AroundValue(s.around_end, end)
             item == IF IsSome(start_value) /\ IsSome(end_value)
                     THEN Some(<<<<start, start_value[1]>>, <<end, end_value[1]>>>>)
                     ELSE IF IsSome(start_value)
                     THEN Some(<<<<start, start_value[1]>>, <<end, start_value[1]>>>>)
                     ELSE IF IsSome(end_value)
                     THEN Some(<<<<start, end_value[1]>>, <<end, end_value[1]>>>>)
                     ELSE None
             current_segment == s.current_segment + 1
             next_end == RAdd(RMul(Num(current_segment + 1), s.segment_size), s.from)
             find_new_end == IF IsSome(s.around_end[2])
                             THEN RLt(s.around_end[2][1][1], next_end)
                             ELSE FALSE
             scan == NextScan(pts, s.pos, next_end, None, None)
         IN  [self |-> [s EXCEPT !.current_segment = current_segment,
                                 !.around_start = s.around_end,
                                 !.around_end = IF find_new_end
                                                THEN <<scan.eb, scan.ea>>
                                                ELSE s.around_end,
                                 !.pos = IF find_new_end THEN scan.pos ELSE s.pos],
              item |-> item]

\* the (min, max) ranges asked of segments_between
SegRanges ==
    {<<Num(400), Num(600)>>, <<Num(400), Num(500)>>, <<Num(450), Num(550)>>,
     <<Num(350), Num(600)>>, <<Num(400), Num(700)>>}

InitSeg == InitGet

\* Interpolated::segments_between, lines 107-109
SegmentsBetween ==
    /\ seg = None
    /\ \E r \in SegRanges, n \in 1 .. MaxSegments :
          seg' = Some(SegmentsNew(points, r[1], r[2], n))
    /\ UNCHANGED <<getVars, yielded, segEnded, mathVars, traceVars, driverVars>>

\* one call of Segments::next by the consumer, which stops at the first None
SegmentsNextCall ==
    /\ seg # None
    /\ ~segEnded
    /\ LET r == SegmentsNext(seg[1], points)
       IN  /\ seg' = Some(r.self)
           /\ IF IsSome(r.item)
              THEN yielded' = Append(yielded, r.item[1]) /\ UNCHANGED segEnded
              ELSE segEnded' = TRUE /\ UNCHANGED yielded
    /\ UNCHANGED <<getVars, mathVars, traceVars, driverVars>>

NextSeg == SegmentsBetween \/ SegmentsNextCall

SpecSeg == InitSeg /\ [][NextSeg]_vars

(***************************************************************************)
(* Properties of the Segments iterator.                                    *)
(***************************************************************************)
\* the piecewise-linear spectrum at x, for x on or between the points
Lerp(pts, x) ==
    IF \E i \in 1 .. Len(pts) : pts[i][1] = x
    THEN pts[CHOOSE i \in 1 .. Len(pts) : pts[i][1] = x][2]
    ELSE LET i == CHOOSE j \in 1 .. Len(pts) - 1 :
                      RLt(pts[j][1], x) /\ RLt(x, pts[j + 1][1])
         IN  RAdd(pts[i][2],
                  RDiv(RMul(RSub(pts[i + 1][2], pts[i][2]), RSub(x, pts[i][1])),
                       RSub(pts[i + 1][1], pts[i][1])))

\* the k-th boundary of the range of iterator s
Boundary(s, k) == RAdd(s.from, RMul(Num(k), s.segment_size))

RECURSIVE TrapezoidSum(_)
TrapezoidSum(items) ==
    IF items = <<>> THEN Zero
    ELSE LET it == items[1]
         IN  RAdd(RMul(RDiv(RAdd(it[1][2], it[2][2]), Num(2)),
                       RSub(it[2][1], it[1][1])),
                  TrapezoidSum(Tail(items)))

RECURSIVE TrapezoidIntegral(_, _, _)
TrapezoidIntegral(pts, s, k) ==
    IF k = 0 THEN Zero
    ELSE RAdd(RMul(RDiv(RAdd(Lerp(pts, Boundary(s, k - 1)),
                             Lerp(pts, Boundary(s, k))), Num(2)),
                   s.segment_size),
              TrapezoidIntegral(pts, s, k - 1))

\* every boundary of the range of s falls on or between the points
BoundariesWithinPoints(pts, s) ==
    /\ Len(pts) > 0
    /\ RLe(pts[1][1], s.from)
    /\ RLe(Boundary(s, s.segments), pts[Len(pts)][1])

\* C4: once the iterator is drained, the sum of (y_start + y_end)/2 *
\* (x_end - x_start) over the yielded segments equals the trapezoidal
\* integral of the piecewise-linear spectrum over the range, whenever the
\* segment boundaries fall on or between the points; the points
\* [(400,0),(500,1),(600,0)] with range 400..600 and n = 4 give 100.
C4_SegmentSumIsIntegral ==
    seg # None /\ segEnded =>
        /\ BoundariesWithinPoints(points, seg[1])
              => TrapezoidSum(yielded)
                 = TrapezoidIntegral(points, seg[1], seg[1].segments)
        /\ points = E4Points /\ seg[1].from = Num(400)
              /\ seg[1].segment_size = Num(50) /\ seg[1].segments = 4
              => TrapezoidSum(yielded) = Num(100)

\* C5: for a non-empty point list and n >= 1 the iterator yields exactly n
\* items before None; the k-th item spans [min + k w, min + (k+1) w] with
\* w = (max - min)/n, and the end point of each item is the start point of
\* the next.
C5_YieldsNAdjacentSegments ==
    seg # None /\ Len(points) > 0 =>
        /\ segEnded => Len(yielded) = seg[1].segments
        /\ \A k \in 1 .. Len(yielded) :
              /\ yielded[k][1][1] = Boundary(seg[1], k - 1)
              /\ yielded[k][2][1] = Boundary(seg[1], k)
              /\ k < Len(yielded) => yielded[k][2] = yielded[k + 1][1]

\* C25: every endpoint ((x_start, y_start) and (x_end, y_end)) of every
\* segment yielded by segments_between has y equal to the linear
\* interpolation of the point list at that x, for every sorted point list
\* and every n, including segments whose end lies in a different point
\* interval than the previous segment's end; the points
\* [(400,0),(500,1),(600,0)] with range 400..600 and n = 4 give a third
\* segment that ends at (550, 1/2).
C25_EndpointsInterpolate ==
    seg # None =>
        /\ BoundariesWithinPoints(points, seg[1]) =>
              \A k \in 1 .. Len(yielded) :
                 /\ yielded[k][1][2] = Lerp(points, yielded[k][1][1])
                 /\ yielded[k][2][2] = Lerp(points, yielded[k][2][1])
        /\ points = E4Points /\ seg[1].from = Num(400)
              /\ seg[1].segment_size = Num(50) /\ seg[1].segments = 4
              /\ Len(yielded) >= 3
              => yielded[3][2] = <<Num(550), R(1, 2)>>

(***************************************************************************)
(* The operators and Math  (math.rs 9-44, 348-357, 394-412).  A value of   *)
(* the type parameter T is a table from the context's wavelength to what   *)
(* its get returns there.                                                  *)
(***************************************************************************)
Wavelengths == {Num(400), Num(500)}

UnitZ == <<Zero, Zero, One>>

UnitVectors ==
    {<<Zero, Zero, One>>, <<Zero, Zero, Num(-1)>>,
     <<R(3, 5), Zero, R(4, 5)>>, <<R(3, 5), Zero, R(-4, 5)>>,
     <<R(4, 5), Zero, R(3, 5)>>, <<R(4, 5), Zero, R(-3, 5)>>,
     <<One, Zero, Zero>>}

\* tracer::RenderContext
RenderContexts ==
    [wavelength : Wavelengths, normal : {UnitZ},
     incident : {<<Zero, Zero, Num(-1)>>}]

\* the values an operand takes: -1, -1/2, 0, 1/2, .. MaxOperand
OperandValues == {R(i, 2) : i \in -2 .. 2 * MaxOperand}

\* the T values: the constants, and one that depends on the wavelength
TValues ==
    {[w \in Wavelengths |-> v] : v \in OperandValues}
    \cup {[w \in Wavelengths |-> IF w = Num(400) THEN R(1, 2) ELSE Num(2)]}

Value(t) == [kind |-> "Value", value |-> t]

\* the operations of make_operators!, lines 349-356
Add(a, b) == RAdd(a, b)

Sub(a, b) == RSub(a, b)

Mul(a, b) == RMul(a, b)

Div(a, b) == RDiv(a, b)

\* a Mix that does not clamp its factor
MixUnclamped(a, b, factor) ==
    RAdd(RMul(a, RSub(One, factor)), RMul(b, factor))

Mix(a, b, factor) ==
    LET f == RMax(RMin(factor, One), Zero)
    IN  RAdd(RMul(a, RSub(One, f)), RMul(b, f))

\* Math::get (lines 404-411) and the get of each operator struct (35-40):
\* every operand is evaluated on the same context
RECURSIVE MathGet(_, _)
MathGet(m, i) ==
    CASE m.kind = "Value" -> m.value[i.wavelength]
      [] m.kind = "Add" -> Add(MathGet(m.a, i), MathGet(m.b, i))
      [] m.kind = "Sub" -> Sub(MathGet(m.a, i), MathGet(m.b, i))
      [] m.kind = "Mul" -> Mul(MathGet(m.a, i), MathGet(m.b, i))
      [] m.kind = "Div" -> Div(MathGet(m.a, i), MathGet(m.b, i))
      [] m.kind = "Mix" ->
            Mix(MathGet(m.a, i), MathGet(m.b, i), MathGet(m.factor, i))

BinaryOperators == {"Add", "Sub", "Mul", "Div"}

\* the operator values whose operands are Math::Value
OperatorValues ==
    [kind : BinaryOperators, a : {Value(t) : t \in TValues},
     b : {Value(t) : t \in TValues}]
    \cup [kind : {"Mix"}, a : {Value(t) : t \in TValues},
          b : {Value(t) : t \in TValues}, factor : {Value(t) : t \in TValues}]

(***************************************************************************)
(* schlick  (math.rs 265-286)                                              *)
(***************************************************************************)
Dot(u, v) == RAdd(RAdd(RMul(u[1], v[1]), RMul(u[2], v[2])), RMul(u[3], v[3]))

VNeg(v) == <<RNeg(v[1]), RNeg(v[2]), RNeg(v[3])>>

IsSquare(n) == \E r \in 0 .. n : r * r = n

ISqrt(n) == CHOOSE r \in 0 .. n : r * r = n

\* f32::sqrt, on the rationals whose root is rational
RSqrt(q) == <<ISqrt(q[1]), ISqrt(q[2])>>

\* sin_t2 of line 276
SinT2(ref_index1, ref_index2, cos_psi) ==
    LET n == RDiv(ref_index1, ref_index2)
    IN  RMul(RMul(n, n), RSub(One, RMul(cos_psi, cos_psi)))

\* the call takes the early return of line 278
TotalInternalReflection(ref_index1, ref_index2, normal, incident) ==
    /\ RGt(ref_index1, ref_index2)
    /\ RGt(SinT2(ref_index1, ref_index2, RNeg(Dot(normal, incident))), One)

\* a schlick that leaves cos_psi as it is when ref_index1 > ref_index2
SchlickNoRefraction(ref_index1, ref_index2, normal, incident) ==
    LET cos_psi == RNeg(Dot(normal, incident))
        r0 == RDiv(RSub(ref_index1, ref_index2), RAdd(ref_index1, ref_index2))
        inv_cos == RSub(One, cos_psi)
        r02 == RMul(r0, r0)
        inv5 == RMul(RMul(RMul(RMul(inv_cos, inv_cos), inv_cos), inv_cos), inv_cos)
    IN  IF TotalInternalReflection(ref_index1, ref_index2, normal, incident)
        THEN One
        ELSE RAdd(r02, RMul(RSub(One, r02), inv5))

schlick(ref_index1, ref_index2, normal, incident) ==
    LET cos_psi0 == RNeg(Dot(normal, incident))
        r0 == RDiv(RSub(ref_index1, ref_index2), RAdd(ref_index1, ref_index2))
        sin_t2 == SinT2(ref_index1, ref_index2, cos_psi0)
        cos_psi == IF RGt(ref_index1, ref_index2)
                   THEN RSqrt(RSub(One, sin_t2))
                   ELSE cos_psi0
        inv_cos == RSub(One, cos_psi)
        r02 == RMul(r0, r0)
        inv5 == RMul(RMul(RMul(RMul(inv_cos, inv_cos), inv_cos), inv_cos), inv_cos)
    IN  IF RGt(ref_index1, ref_index2) /\ RGt(sin_t2, One)
        THEN One
        ELSE RAdd(r02, RMul(RSub(One, r02), inv5))

RefIndices == {One, R(4, 3), Num(2)}

\* the square root of line 280 is rational (or is not taken)
RootIsRational(n1, n2, normal, incident) ==
    RGt(n1, n2) /\ ~TotalInternalReflection(n1, n2, normal, incident) =>
        LET q == RSub(One, SinT2(n1, n2, RNeg(Dot(normal, incident))))
        IN  IsSquare(q[1]) /\ IsSquare(q[2])

\* the arguments of schlick: positive indices and unit vectors for which the
\* roots taken by the call and by the call with the media swapped are rational
SchlickArguments ==
    {a \in [ref_index1 : RefIndices, ref_index2 : RefIndices,
            normal : {UnitZ}, incident : UnitVectors] :
        /\ RootIsRational(a.ref_index1, a.ref_index2, a.normal, a.incident)
        /\ RootIsRational(a.ref_index2, a.ref_index1, VNeg(a.normal), a.incident)}

InitMath == GetIdle /\ SegIdle /\ MathIdle /\ TraceIdle /\ DriverIdle

\* the calls are pure: a behaviour observes one call, of either function

\* one evaluation of an operator on a render context
Evaluate ==
    \E m \in OperatorValues, i \in RenderContexts :
        /\ mathExpr = None /\ schlickIn = None
        /\ mathExpr' = Some(m)
        /\ mathCtx' = Some(i)
        /\ mathResult' = Some(MathGet(m, i))
        /\ UNCHANGED <<getVars, segVars, schlickIn, schlickOut, traceVars, driverVars>>

\* one call of schlick
CallSchlick ==
    \E a \in SchlickArguments :
        /\ mathExpr = None /\ schlickIn = None
        /\ schlickIn' = Some(a)
        /\ schlickOut' =
              Some(schlick(a.ref_index1, a.ref_index2, a.normal, a.incident))
        /\ UNCHANGED <<getVars, segVars, mathExpr, mathCtx, mathResult, traceVars, driverVars>>

NextMath == Evaluate \/ CallSchlick

SpecMath == InitMath /\ [][NextMath]_vars

(***************************************************************************)
(* Properties of the operators and of schlick.                             *)
(***************************************************************************)
\* clamp(f, 0, 1)
Clamp01(f) == IF RLt(f, Zero) THEN Zero ELSE IF RGt(f, One) THEN One ELSE f

\* C6: on every render context c, Add(a,b).get(c) = a.get(c) + b.get(c)
\* and Sub, Mul, Div give the difference, product and quotient of the two
\* operand values on c; Mix(a,b,f).get(c) = a(1-f') + b f' with
\* f' = clamp(f,0,1), which is Mix with the clamped factor, a's value when
\* f <= 0 and b's value when f >= 1.
C6_OperatorsComputeOnOperands ==
    mathExpr # None =>
        LET m == mathExpr[1]
            c == mathCtx[1]
            r == mathResult[1]
            a == m.a.value[c.wavelength]
            b == m.b.value[c.wavelength]
        IN  /\ m.kind = "Add" => r = R(a[1] * b[2] + b[1] * a[2], a[2] * b[2])
            /\ m.kind = "Sub" => r = R(a[1] * b[2] - b[1] * a[2], a[2] * b[2])
            /\ m.kind = "Mul" => r = R(a[1] * b[1], a[2] * b[2])
            /\ m.kind = "Div" => r = R(a[1] * b[2], a[2] * b[1])
            /\ m.kind = "Mix" =>
                  LET f == m.factor.value[c.wavelength]
                      fc == Clamp01(f)
                  IN  /\ r = RAdd(RMul(a, RSub(One, fc)), RMul(b, fc))
                      /\ r = MathGet([m EXCEPT !.factor =
                                        Value([w \in Wavelengths |-> fc])], c)
                      /\ RLe(f, Zero) => r = a
                      /\ RGe(f, One) => r = b

\* C6 witness: a Mix whose factor lies above 1 on the context, and whose
\* operands differ there, has been evaluated.
C6_Witness ==
    /\ mathExpr # None
    /\ mathExpr[1].kind = "Mix"
    /\ RGt(mathExpr[1].factor.value[mathCtx[1].wavelength], One)
    /\ mathExpr[1].a.value[mathCtx[1].wavelength]
          # mathExpr[1].b.value[mathCtx[1].wavelength]
    /\ mathResult = Some(mathExpr[1].b.value[mathCtx[1].wavelength])

\* neither schlick(n1, n2, N, I) nor schlick(n2, n1, -N, I) takes the
\* total-internal-reflection early return
NeitherReflectsTotally(a) ==
    /\ ~TotalInternalReflection(a.ref_index1, a.ref_index2, a.normal, a.incident)
    /\ ~TotalInternalReflection(a.ref_index2, a.ref_index1, VNeg(a.normal),
                                a.incident)

\* C7 as stated: schlick(n1, n2, N, I) = schlick(n2, n1, -N, I) for all
\* indices n1, n2 > 0 and unit vectors N, I for which neither call takes
\* the total-internal-reflection early return.
C7_SchlickSymmetry ==
    schlickIn # None /\ NeitherReflectsTotally(schlickIn[1]) =>
        LET a == schlickIn[1]
        IN  schlickOut[1]
            = schlick(a.ref_index2, a.ref_index1, VNeg(a.normal), a.incident)

\* C7 amended: when neither call takes the early return, the two calls
\* agree exactly when n1 = n2 and N.I = 0, or n1 > n2 and N.I = 1, or
\* n1 < n2 and N.I = -1; for every other direction they differ.
C7_SchlickSymmetryOnlyDegenerate ==
    schlickIn # None /\ NeitherReflectsTotally(schlickIn[1]) =>
        LET a == schlickIn[1]
            d == Dot(a.normal, a.incident)
        IN  (schlickOut[1]
             = schlick(a.ref_index2, a.ref_index1, VNeg(a.normal), a.incident))
            <=> \/ a.ref_index1 = a.ref_index2 /\ d = Zero
                \/ RGt(a.ref_index1, a.ref_index2) /\ d = One
                \/ RLt(a.ref_index1, a.ref_index2) /\ d = Num(-1)

\* C7 witness: a call with n1 > n2 that refracts (no early return, a root
\* taken at an oblique angle) and differs from the call with media swapped.
C7_Witness ==
    /\ schlickIn # None
    /\ NeitherReflectsTotally(schlickIn[1])
    /\ RGt(schlickIn[1].ref_index1, schlickIn[1].ref_index2)
    /\ Dot(schlickIn[1].normal, schlickIn[1].incident) = R(-4, 5)
    /\ schlickOut[1]
          # schlick(schlickIn[1].ref_index2, schlickIn[1].ref_index1,
                    VNeg(schlickIn[1].normal), schlickIn[1].incident)

(***************************************************************************)
(* The tracer  (tracer.rs 127-426).  Rays and geometry are left out: what  *)
(* World::intersect and Material::reflect return at each bounce is chosen  *)
(* by the environment.  A colour (ParametricValue<RenderContext, f64>) is  *)
(* a table from the context's wavelength to what its get returns there.    *)
(***************************************************************************)
TraceWavelengths == {Num(400), Num(500)}

\* the wavelengths vectors trace is called with
WavelengthLists == {<<Num(400)>>, <<Num(400), Num(500)>>}

ConstOne == [w \in TraceWavelengths |-> One]

ConstHalf == [w \in TraceWavelengths |-> R(1, 2)]

\* 0 at 400 nm, 2 at 500 nm
Ramp == [w \in TraceWavelengths |-> RDiv(RSub(w, Num(400)), Num(50))]

Colors == {ConstOne, ConstHalf, Ramp}

Scales == {One, R(1, 2)}

\* what a Brdf returns for the directions of the bounce, or no Brdf
Brdfs == {None, Some(R(1, 2)), Some(Zero)}

\* Reflection (lines 127-131), without the out ray
Emit(color) == [kind |-> "Emit", color |-> color]

Reflect(color, scale, brdf) ==
    [kind |-> "Reflect", color |-> color, scale |-> scale, brdf |-> brdf]

Disperse(reflections) == [kind |-> "Disperse", reflections |-> reflections]

Miss == [kind |-> "Miss"]

PlainMirror == Reflect(ConstOne, One, None)

\* WavelengthSample as trace creates it, lines 151-157
NewSample(wl) ==
    [wavelength |-> wl, reflectance |-> One, brightness |-> Zero,
     weight |-> One, sample_light |-> TRUE]

\* what the sampling of the chosen light comes to over all light samples:
\* the emission of the light and the sum of the accepted scale factors
LightDraws ==
    {[emission |-> ConstOne, gain |-> Zero],
     [emission |-> ConstOne, gain |-> One],
     [emission |-> Ramp, gain |-> One]}

NoDraw == [emission |-> ConstOne, gain |-> Zero]

\* trace_direct, lines 371-426: a vector of `samples` sums, of which the
\* fold fills the entries zipped with the wavelengths
trace_direct(samples, wls, nlights, draw) ==
    IF nlights = 0
    THEN [j \in 1 .. samples |-> Zero]
    ELSE [j \in 1 .. samples |->
            IF j <= Len(wls) THEN RMul(draw.emission[wls[j]], draw.gain)
            ELSE Zero]

\* a removal that drops the last element instead of element i
TruncateLast(v, i) == [j \in 1 .. Len(v) - 1 |-> v[j]]

\* Vec::swap_remove(i)
SwapRemove(v, i) ==
    [j \in 1 .. Len(v) - 1 |-> IF j = i + 1 THEN v[Len(v)] ELSE v[j]]

\* brdf.map(|brdf| brdf(..)).unwrap_or(0.0): no Brdf absorbs everything
BrdfScaleOrZero(brdf) == IF brdf = None THEN Zero ELSE brdf[1]

\* brdf.map(|brdf| brdf(..)).unwrap_or(1.0), lines 192, 252, 329
BrdfScale(brdf) == IF brdf = None THEN One ELSE brdf[1]

\* lines 164-172
ReflectAll(tr, color, scale) ==
    [j \in 1 .. Len(tr) |->
        [tr[j] EXCEPT !.reflectance =
            RMul(@, RMul(color[tr[j].wavelength], scale))]]

\* lines 178-183, 244-249, 321-326
ApplyDirect(sample, light_sum) ==
    IF RGt(light_sum, Zero)
    THEN [sample EXCEPT !.brightness = RAdd(@, RMul(sample.reflectance, light_sum)),
                        !.sample_light = FALSE]
    ELSE [sample EXCEPT !.sample_light = TRUE]

\* lines 177-184: the samples zipped with the vector of trace_direct
DirectAll(tr, direct_light) ==
    [j \in 1 .. Len(tr) |->
        IF j <= Len(direct_light) THEN ApplyDirect(tr[j], direct_light[j])
        ELSE tr[j]]

\* the while loop of lines 188-205
RECURSIVE Absorb(_, _, _, _, _)
Absorb(tr, wls, done, i, brdf) ==
    IF i < Len(tr)
    THEN LET new_reflectance == RMul(At(tr, i).reflectance, BrdfScale(brdf))
         IN  IF new_reflectance = Zero
             THEN Absorb(SwapRemove(tr, i), SwapRemove(wls, i),
                         Append(done, At(tr, i)), i, brdf)
             ELSE Absorb([tr EXCEPT ![i + 1] =
                             [@ EXCEPT !.reflectance = new_reflectance,
                                       !.sample_light = (brdf = None) \/ @]],
                         wls, done, i + 1, brdf)
    ELSE [traced |-> tr, wavelengths |-> wls, completed |-> done]

\* an Emit that adds the colour at the first wavelength of the table
EmitIntoFirstWavelength(sample, color) ==
    IF sample.sample_light
    THEN [sample EXCEPT !.brightness =
            RAdd(@, RMul(sample.reflectance, color[Num(400)]))]
    ELSE sample

\* an Emit counted whatever the sample_light flag says
EmitIntoAlways(sample, color) ==
    [sample EXCEPT !.brightness =
        RAdd(@, RMul(sample.reflectance, color[sample.wavelength]))]

\* lines 217-220, 258-261, 345-348
EmitInto(sample, color) ==
    IF sample.sample_light
    THEN [sample EXCEPT !.brightness =
            RAdd(@, RMul(sample.reflectance, color[sample.wavelength]))]
    ELSE sample

\* the sky only counted for a sample whose sample_light flag is set
MissIntoIfSampleLight(sample, skyColor) ==
    IF sample.sample_light
    THEN [sample EXCEPT !.brightness =
            RAdd(@, RMul(sample.reflectance, skyColor[sample.wavelength]))]
    ELSE sample

\* lines 280, 362
MissInto(sample, skyColor) ==
    [sample EXCEPT !.brightness =
        RAdd(@, RMul(sample.reflectance, skyColor[sample.wavelength]))]

\* the draws of the light sampling an action has to choose from
DrawsFor(brdf) == IF brdf # None /\ lights > 0 THEN LightDraws ELSE {NoDraw}

DirectRecord(samples, wls, sum) ==
    [samples |-> samples, wavelengths |-> wls, sum |-> sum]

\* a hit whose material returned `returned`, handled as `reflection`
NestedHit(returned, reflection, draw) ==
    Some([reflection |-> reflection, draw |-> draw, returned |-> returned])

Hit(reflection, draw) == NestedHit(reflection, reflection, draw)

InitTrace ==
    /\ GetIdle /\ SegIdle /\ MathIdle /\ DriverIdle
    /\ sky \in Colors
    /\ lights \in {0, 1}
    /\ traceArgs = None
    /\ tpc = "idle"
    /\ bounce = 0
    /\ traced = <<>>
    /\ wavelengths = <<>>
    /\ completed = <<>>
    /\ pairs = <<>>
    /\ branch = None
    /\ firstHit = None
    /\ allMirror = TRUE
    /\ ended = "no"
    /\ directLight = None
    /\ hit = None
    /\ queries = [trace |-> 0, branch |-> 0]

notTrace == <<getVars, segVars, mathVars, driverVars>>

\* the call of trace, lines 147-158; with no bounces the loop is skipped
\* and lines 289-293 return the samples as they are
Trace ==
    /\ tpc = "idle"
    /\ \E wls \in WavelengthLists, bounces \in 0 .. MaxBounces,
          light_samples \in 1 .. MaxLightSamples :
          /\ traceArgs' = Some([wavelengths |-> wls, bounces |-> bounces,
                                light_samples |-> light_samples])
          /\ wavelengths' = wls
          /\ IF bounces > 0
             THEN /\ tpc' = "loop"
                  /\ traced' = [j \in 1 .. Len(wls) |-> NewSample(wls[j])]
                  /\ completed' = <<>>
                  /\ ended' = ended
             ELSE /\ tpc' = "done"
                  /\ traced' = <<>>
                  /\ completed' = [j \in 1 .. Len(wls) |-> NewSample(wls[j])]
                  /\ ended' = "exhausted"
    /\ UNCHANGED <<sky, lights, bounce, pairs, branch, firstHit, allMirror,
                   directLight, hit, queries, notTrace>>

\* a bounce that misses every object, lines 271-285
TraceMiss ==
    /\ tpc = "loop"
    /\ tpc' = "done"
    /\ completed' =
          completed \o [j \in 1 .. Len(traced) |-> MissInto(traced[j], sky)]
    /\ traced' = <<>>
    /\ ended' = "miss"
    /\ firstHit' = IF bounce = 0 THEN Some(Miss) ELSE firstHit
    /\ hit' = Hit(Miss, NoDraw)
    /\ queries' = [queries EXCEPT !.trace = @ + 1]
    /\ UNCHANGED <<sky, lights, traceArgs, bounce, wavelengths, pairs, branch,
                   allMirror, directLight, notTrace>>

\* a bounce whose material returns Reflect, lines 163-208; after the last
\* bounce lines 289-293 return what is left
TraceReflect ==
    /\ tpc = "loop"
    /\ \E color \in Colors, scale \in Scales, brdf \in Brdfs :
        \E draw \in DrawsFor(brdf) :
          LET a == traceArgs[1]
              t1 == ReflectAll(traced, color, scale)
              direct_light == trace_direct(a.light_samples, wavelengths, lights, draw)
              t2 == IF brdf # None THEN DirectAll(t1, direct_light) ELSE t1
              r == Absorb(t2, wavelengths, completed, 0, brdf)
          IN  /\ bounce' = bounce + 1
              /\ wavelengths' = r.wavelengths
              /\ IF bounce + 1 < a.bounces
                 THEN /\ tpc' = "loop"
                      /\ traced' = r.traced
                      /\ completed' = r.completed
                      /\ ended' = ended
                 ELSE /\ tpc' = "done"
                      /\ traced' = <<>>
                      /\ completed' = r.completed \o r.traced
                      /\ ended' = "exhausted"
              /\ directLight' =
                    IF brdf # None
                    THEN Some(DirectRecord(a.light_samples, wavelengths, direct_light))
                    ELSE directLight
              /\ firstHit' =
                    IF bounce = 0 THEN Some(Reflect(color, scale, brdf)) ELSE firstHit
              /\ allMirror' = (allMirror /\ Reflect(color, scale, brdf) = PlainMirror)
              /\ hit' = Hit(Reflect(color, scale, brdf), draw)
              /\ queries' = [queries EXCEPT !.trace = @ + 1]
    /\ UNCHANGED <<sky, lights, traceArgs, pairs, branch, notTrace>>

\* a bounce whose material returns Emit, lines 209-224
TraceEmit ==
    /\ tpc = "loop"
    /\ \E color \in Colors :
          /\ completed' =
                completed \o [j \in 1 .. Len(traced) |-> EmitInto(traced[j], color)]
          /\ firstHit' = IF bounce = 0 THEN Some(Emit(color)) ELSE firstHit
          /\ hit' = Hit(Emit(color), NoDraw)
          /\ queries' = [queries EXCEPT !.trace = @ + 1]
    /\ tpc' = "done"
    /\ traced' = <<>>
    /\ ended' = "emit"
    /\ allMirror' = FALSE
    /\ UNCHANGED <<sky, lights, traceArgs, bounce, wavelengths, pairs, branch,
                   directLight, notTrace>>

\* the branches a Disperse is made of: leaves, and nested Disperses
DisperseBranches ==
    {Emit(c) : c \in Colors}
    \cup {PlainMirror, Reflect(ConstHalf, One, Some(R(1, 2)))}
    \cup {Disperse(<<>>), Disperse(<<Emit(ConstOne), Emit(Ramp)>>),
          Disperse(<<Emit(ConstOne),
                     Disperse(<<Emit(ConstHalf), PlainMirror>>)>>)}

\* a walk that takes the first element of a nested Disperse
RECURSIVE FirstLeaf(_)
FirstLeaf(reflection) ==
    IF reflection.kind = "Disperse"
    THEN IF reflection.reflections = <<>>
         THEN [kind |-> "Panic"]
         ELSE FirstLeaf(reflection.reflections[1])
    ELSE reflection

\* the loops of lines 234-236 and 305-307: a nested Disperse is replaced by
\* its last element; expect() panics on an empty one
RECURSIVE Leaf(_)
Leaf(reflection) ==
    IF reflection.kind = "Disperse"
    THEN IF reflection.reflections = <<>>
         THEN [kind |-> "Panic"]
         ELSE Leaf(reflection.reflections[Len(reflection.reflections)])
    ELSE reflection

\* a Reflect leaf of the Disperse arm of trace, lines 237-253
DisperseReflect(sample, leaf, samples, nlights, draw) ==
    LET s1 == [sample EXCEPT !.reflectance =
                  RMul(@, RMul(leaf.color[sample.wavelength], leaf.scale))]
        direct_light == trace_direct(samples, <<sample.wavelength>>, nlights, draw)
        s2 == IF leaf.brdf # None THEN ApplyDirect(s1, direct_light[1]) ELSE s1
    IN  [s2 EXCEPT !.reflectance = RMul(@, BrdfScale(leaf.brdf)),
                   !.sample_light = (leaf.brdf = None) \/ @]

\* a Reflect leaf in trace_branch without the assignment of line 330
BranchReflectKeepsFlag(sample, leaf, samples, nlights, draw) ==
    LET s1 == [sample EXCEPT !.reflectance =
                  RMul(@, RMul(leaf.color[sample.wavelength], leaf.scale))]
        direct_light == trace_direct(samples, <<sample.wavelength>>, nlights, draw)
        s2 == IF leaf.brdf # None THEN ApplyDirect(s1, direct_light[1]) ELSE s1
    IN  [s2 EXCEPT !.reflectance = RMul(@, BrdfScale(leaf.brdf))]

\* a Reflect leaf in trace_branch, lines 308-330
BranchReflect(sample, leaf, samples, nlights, draw) ==
    LET s1 == [sample EXCEPT !.reflectance =
                  RMul(@, RMul(leaf.color[sample.wavelength], leaf.scale))]
        direct_light == trace_direct(samples, <<sample.wavelength>>, nlights, draw)
        s2 == IF leaf.brdf # None THEN ApplyDirect(s1, direct_light[1]) ELSE s1
    IN  [s2 EXCEPT !.reflectance = RMul(@, BrdfScale(leaf.brdf)),
                   !.sample_light = (leaf.brdf = None) \/ @]

\* a budget that does not count the bounce of the Disperse itself
BranchBouncesFull == traceArgs[1].bounces - bounce

\* the bounces trace hands to trace_branch, line 226
BranchBounces == traceArgs[1].bounces - (bounce + 1)

\* a turn of the for loop that does not push the sample
DropBranchResult(sample, rest) ==
    /\ completed' = completed
    /\ pairs' = rest
    /\ branch' = None
    /\ tpc' = IF rest = <<>> THEN "done" ELSE "disperse"

\* line 254 and the end of the for loop of lines 227-266: the sample that
\* trace_branch (or an Emit leaf) gives is pushed; after the last pair
\* line 268 returns
PushBranchResult(sample, rest) ==
    /\ completed' = Append(completed, sample)
    /\ pairs' = rest
    /\ branch' = None
    /\ tpc' = IF rest = <<>> THEN "done" ELSE "disperse"

\* a bounce whose material returns Disperse, lines 225-227: the alive
\* samples are zipped with the branches
TraceDisperse ==
    /\ tpc = "loop"
    /\ \E reflections \in [1 .. Len(traced) -> DisperseBranches] :
          /\ pairs' = [j \in 1 .. Len(traced) |-> <<traced[j], reflections[j]>>]
          /\ firstHit' = IF bounce = 0 THEN Some(Disperse(reflections)) ELSE firstHit
          /\ hit' = Hit(Disperse(reflections), NoDraw)
          /\ queries' = [queries EXCEPT !.trace = @ + 1]
    /\ tpc' = IF traced = <<>> THEN "done" ELSE "disperse"
    /\ traced' = <<>>
    /\ ended' = "disperse"
    /\ allMirror' = FALSE
    /\ UNCHANGED <<sky, lights, traceArgs, bounce, wavelengths, completed,
                   branch, directLight, notTrace>>

\* one turn of the for loop of lines 227-266, up to the call of trace_branch
DispersePair ==
    /\ tpc = "disperse"
    /\ pairs # <<>>
    /\ queries' = [queries EXCEPT !.branch = 0]
    /\ LET sample == pairs[1][1]
           leaf == Leaf(pairs[1][2])
           a == traceArgs[1]
       IN  CASE leaf.kind = "Panic" ->
                  /\ tpc' = "panic"
                  /\ hit' = NestedHit(pairs[1][2], leaf, NoDraw)
                  /\ UNCHANGED <<completed, pairs, branch, directLight>>
             [] leaf.kind = "Emit" ->
                  /\ PushBranchResult(EmitInto(sample, leaf.color), Tail(pairs))
                  /\ hit' = NestedHit(pairs[1][2], leaf, NoDraw)
                  /\ UNCHANGED directLight
             [] leaf.kind = "Reflect" ->
                  \E draw \in DrawsFor(leaf.brdf) :
                     LET s == DisperseReflect(sample, leaf, a.light_samples,
                                              lights, draw)
                     IN  /\ hit' = NestedHit(pairs[1][2], leaf, draw)
                         /\ IF BranchBounces > 0
                            THEN /\ branch' = Some([sample |-> s,
                                                    left |-> BranchBounces])
                                 /\ pairs' = Tail(pairs)
                                 /\ tpc' = "branch"
                                 /\ UNCHANGED completed
                            ELSE PushBranchResult(s, Tail(pairs))
                         /\ directLight' =
                               IF leaf.brdf # None
                               THEN Some(DirectRecord(a.light_samples,
                                     <<sample.wavelength>>,
                                     trace_direct(a.light_samples,
                                         <<sample.wavelength>>, lights, draw)))
                               ELSE directLight
    /\ UNCHANGED <<sky, lights, traceArgs, bounce, traced, wavelengths,
                   firstHit, allMirror, ended, notTrace>>

\* the reflections a material returns to trace_branch
BranchReflections ==
    {Emit(c) : c \in {ConstOne, Ramp}}
    \cup {PlainMirror, Reflect(Ramp, One, Some(R(1, 2)))}
    \cup {Disperse(<<>>), Disperse(<<PlainMirror, Emit(ConstHalf)>>),
          Disperse(<<Emit(ConstOne),
                     Disperse(<<PlainMirror,
                                Reflect(Ramp, One, Some(R(1, 2)))>>)>>),
          Disperse(<<PlainMirror, Disperse(<<>>)>>)}

\* a bounce of trace_branch that misses, lines 353-364
BranchMiss ==
    /\ tpc = "branch"
    /\ PushBranchResult(MissInto(branch[1].sample, sky), pairs)
    /\ hit' = Hit(Miss, NoDraw)
    /\ queries' = [queries EXCEPT !.branch = @ + 1]
    /\ UNCHANGED <<sky, lights, traceArgs, bounce, traced, wavelengths,
                   firstHit, allMirror, ended, directLight, notTrace>>

\* a bounce of trace_branch that hits, lines 303-351; after the last bounce
\* line 368 returns the sample
BranchHit ==
    /\ tpc = "branch"
    /\ queries' = [queries EXCEPT !.branch = @ + 1]
    /\ \E reflection \in BranchReflections :
          LET sample == branch[1].sample
              leaf == Leaf(reflection)
              a == traceArgs[1]
          IN  CASE leaf.kind = "Panic" ->
                     /\ tpc' = "panic"
                     /\ hit' = NestedHit(reflection, leaf, NoDraw)
                     /\ UNCHANGED <<completed, pairs, branch, directLight>>
                [] leaf.kind = "Emit" ->
                     /\ PushBranchResult(EmitInto(sample, leaf.color), pairs)
                     /\ hit' = NestedHit(reflection, leaf, NoDraw)
                     /\ UNCHANGED directLight
                [] leaf.kind = "Reflect" ->
                     \E draw \in DrawsFor(leaf.brdf) :
                        LET s == BranchReflect(sample, leaf, a.light_samples,
                                               lights, draw)
                        IN  /\ hit' = NestedHit(reflection, leaf, draw)
                            /\ IF s.reflectance = Zero \/ branch[1].left = 1
                               THEN PushBranchResult(s, pairs)
                               ELSE /\ branch' = Some([sample |-> s,
                                                left |-> branch[1].left - 1])
                                    /\ UNCHANGED <<completed, pairs, tpc>>
                            /\ directLight' =
                                  IF leaf.brdf # None
                                  THEN Some(DirectRecord(a.light_samples,
                                        <<sample.wavelength>>,
                                        trace_direct(a.light_samples,
                                            <<sample.wavelength>>, lights, draw)))
                                  ELSE directLight
    /\ UNCHANGED <<sky, lights, traceArgs, bounce, traced, wavelengths,
                   firstHit, allMirror, ended, notTrace>>

NextTrace ==
    \/ Trace
    \/ TraceMiss
    \/ TraceReflect
    \/ TraceEmit
    \/ TraceDisperse
    \/ DispersePair
    \/ BranchMiss
    \/ BranchHit

SpecTrace == InitTrace /\ [][NextTrace]_vars

(***************************************************************************)
(* Properties of the tracer.                                               *)
(***************************************************************************)
\* C8: when world.lights is empty, trace_direct returns a vector of zeros
\* whose length is the number of wavelengths it was passed, whatever the
\* light_samples count.
C8_NoLightsZeroPerWavelength ==
    directLight # None /\ lights = 0 =>
        /\ Len(directLight[1].sum) = Len(directLight[1].wavelengths)
        /\ \A j \in 1 .. Len(directLight[1].sum) : directLight[1].sum[j] = Zero

IsConstant(color) ==
    \A w1 \in TraceWavelengths, w2 \in TraceWavelengths : color[w1] = color[w2]

\* C9 as stated: with every material returning Reflect{color 1, scale 1,
\* no brdf} and a constant sky c, trace returns brightness c for every
\* wavelength sample, whatever the number of hits and whatever max_bounces.
C9_MirrorsReturnSky ==
    tpc = "done" /\ allMirror /\ IsConstant(sky) =>
        /\ Len(completed) = Len(traceArgs[1].wavelengths)
        /\ \A j \in 1 .. Len(completed) :
              completed[j].brightness = sky[completed[j].wavelength]

\* C9 amended: with such materials and a constant sky c, trace returns one
\* sample per wavelength; their brightness is c when a ray misses before
\* max_bounces intersections have hit, and 0 when all max_bounces
\* intersections hit (max_bounces = 0 included).
C9_MirrorsReturnSkyOnMiss ==
    tpc = "done" /\ allMirror /\ IsConstant(sky) =>
        /\ Len(completed) = Len(traceArgs[1].wavelengths)
        /\ ended \in {"miss", "exhausted"}
        /\ ended = "miss" =>
              /\ bounce < traceArgs[1].bounces
              /\ \A j \in 1 .. Len(completed) :
                    completed[j].brightness = sky[completed[j].wavelength]
        /\ ended = "exhausted" =>
              /\ bounce = traceArgs[1].bounces
              /\ \A j \in 1 .. Len(completed) : completed[j].brightness = Zero

\* C9 witness: a path of two wavelengths that hit a mirror and then missed
\* under a constant sky of 1/2 returned brightness 1/2.
C9_Witness ==
    /\ tpc = "done"
    /\ allMirror
    /\ sky = ConstHalf
    /\ bounce >= 1
    /\ ended = "miss"
    /\ Len(completed) = 2
    /\ \A j \in 1 .. Len(completed) : completed[j].brightness = R(1, 2)

\* the first intersection of trace hit a material that returned a single
\* Disperse whose branches are all Emit
FirstHitDispersesEmits ==
    /\ firstHit # None
    /\ firstHit[1].kind = "Disperse"
    /\ \A j \in 1 .. Len(firstHit[1].reflections) :
          firstHit[1].reflections[j].kind = "Emit"

\* C10: called with k wavelengths and max_bounces >= 1, when the first hit
\* returns a Disperse of k leaves Emit(c_i), trace returns exactly k
\* samples, the i-th with wavelength w_i and brightness c_i(w_i).
C10_DisperseOfEmits ==
    tpc = "done" /\ FirstHitDispersesEmits =>
        LET wls == traceArgs[1].wavelengths
        IN  /\ Len(completed) = Len(wls)
            /\ \A j \in 1 .. Len(completed) :
                  /\ completed[j].wavelength = wls[j]
                  /\ completed[j].brightness
                        = firstHit[1].reflections[j].color[wls[j]]

\* C10 witness: two wavelengths, Disperse([Emit(1/2), Emit(ramp)]), and the
\* samples came back with brightness 1/2 and ramp(500) = 2.
C10_Witness ==
    /\ tpc = "done"
    /\ FirstHitDispersesEmits
    /\ Len(completed) = 2
    /\ firstHit[1].reflections = <<Emit(ConstHalf), Emit(Ramp)>>
    /\ completed[1].brightness = R(1, 2)
    /\ completed[2].brightness = Num(2)

\* C11: when the ray of trace misses every object, every alive sample gets
\* reflectance * sky(wavelength) added to its brightness whatever its
\* sample_light flag, all alive samples are moved to completed behind the
\* ones already there, and trace returns; with no objects, a sky of
\* constant 1/2 and one wavelength the returned brightness is 1/2.
C11_MissAddsSky ==
    /\ [][tpc = "loop" /\ ended' = "miss" =>
            /\ tpc' = "done"
            /\ traced' = <<>>
            /\ Len(completed') = Len(completed) + Len(traced)
            /\ \A j \in 1 .. Len(completed) : completed'[j] = completed[j]
            /\ \A j \in 1 .. Len(traced) :
                  LET before == traced[j]
                      after == completed'[Len(completed) + j]
                  IN  /\ after.brightness
                            = RAdd(before.brightness,
                                   RMul(before.reflectance,
                                        sky[before.wavelength]))
                      /\ after.wavelength = before.wavelength
                      /\ after.reflectance = before.reflectance
                      /\ after.sample_light = before.sample_light]_vars
    /\ [](tpc = "done" /\ firstHit = Some(Miss) /\ sky = ConstHalf
            /\ Len(traceArgs[1].wavelengths) = 1
          => Len(completed) = 1 /\ completed[1].brightness = R(1, 2))

\* C11 witness: a sample whose sample_light flag was cleared by a direct
\* light sum of 1 at a diffuse hit (brightness 1, reflectance 1/2) missed
\* under a sky of 1/2 and came back with brightness 1 + 1/2 * 1/2.
C11_Witness ==
    /\ tpc = "done"
    /\ ended = "miss"
    /\ sky = ConstHalf
    /\ Len(completed) = 1
    /\ completed[1].sample_light = FALSE
    /\ completed[1].reflectance = R(1, 2)
    /\ completed[1].brightness = R(5, 4)

\* the last intersection returned this kind of reflection (as its leaf)
HitKind(h, kind) == h # None /\ h[1].reflection.kind = kind

\* the direct light estimated at the last vertex for this wavelength was
\* greater than zero
LitDirectly(w) ==
    /\ directLight # None
    /\ \E k \in 1 .. Len(directLight[1].sum) :
          /\ k <= Len(directLight[1].wavelengths)
          /\ directLight[1].wavelengths[k] = w
          /\ RGt(directLight[1].sum[k], Zero)

\* C19: when a hit returns Emit(color), trace and trace_branch add
\* reflectance * color(wavelength) to a sample's brightness if and only if
\* its sample_light flag is true, move every alive sample to completed and
\* return without further bounces; hence an emitter hit directly after a
\* vertex whose direct-light sum was > 0 adds nothing to that sample.
C19_EmitAddsIfSampleLight ==
    /\ [][HitKind(hit', "Emit") =>
            LET color == hit'[1].reflection.color
                Emitted(before, after) ==
                    /\ after.brightness =
                          IF before.sample_light
                          THEN RAdd(before.brightness,
                                    RMul(before.reflectance,
                                         color[before.wavelength]))
                          ELSE before.brightness
                    /\ after.wavelength = before.wavelength
                    /\ after.reflectance = before.reflectance
                    /\ after.sample_light = before.sample_light
            IN  CASE tpc = "loop" ->
                       /\ tpc' = "done"
                       /\ traced' = <<>>
                       /\ bounce' = bounce
                       /\ Len(completed') = Len(completed) + Len(traced)
                       /\ \A j \in 1 .. Len(completed) :
                             completed'[j] = completed[j]
                       /\ \A j \in 1 .. Len(traced) :
                             Emitted(traced[j], completed'[Len(completed) + j])
                  [] tpc = "disperse" ->
                       /\ Len(completed') = Len(completed) + 1
                       /\ Emitted(pairs[1][1], completed'[Len(completed')])
                       /\ pairs' = Tail(pairs)
                       /\ branch' = None
                  [] tpc = "branch" ->
                       /\ Len(completed') = Len(completed) + 1
                       /\ Emitted(branch[1].sample, completed'[Len(completed')])
                       /\ branch' = None
                  [] OTHER -> FALSE]_vars
    /\ [][/\ HitKind(hit, "Reflect")
          /\ hit[1].reflection.brdf # None
          /\ HitKind(hit', "Emit")
          => /\ tpc = "loop" =>
                   \A j \in 1 .. Len(traced) :
                      LitDirectly(traced[j].wavelength) =>
                         completed'[Len(completed) + j] = traced[j]
             /\ tpc = "branch" =>
                   (LitDirectly(branch[1].sample.wavelength) =>
                       completed'[Len(completed')] = branch[1].sample)]_vars

\* C19 witness: a sample got a direct-light sum of 1 at a diffuse vertex
\* (brightness 1, reflectance 1/2, sample_light cleared), then hit an
\* emitter of colour 1 and came back with brightness 1.
C19_Witness ==
    /\ tpc = "done"
    /\ ended = "emit"
    /\ hit = Hit(Emit(ConstOne), NoDraw)
    /\ bounce = 1
    /\ Len(completed) = 1
    /\ completed[1].sample_light = FALSE
    /\ completed[1].reflectance = R(1, 2)
    /\ completed[1].brightness = One

\* the samples a step of trace has written: the alive ones and the ones it
\* has pushed on completed
SamplesAfter ==
    {traced'[k] : k \in 1 .. Len(traced')}
    \cup {completed'[k] : k \in Len(completed) + 1 .. Len(completed')}

\* C20: in trace, when a hit returns Reflect with a brdf present, every
\* alive sample (for any number of alive wavelengths and any light_samples
\* >= 1) receives the direct-light sum computed for its own wavelength: if
\* that sum is > 0 its brightness grows by reflectance * sum (reflectance
\* already multiplied by color * scale, not yet by the brdf) and
\* sample_light becomes false, otherwise sample_light becomes true.
C20_EverySampleGetsItsLightSum ==
    [][/\ tpc = "loop"
       /\ HitKind(hit', "Reflect")
       /\ hit'[1].reflection.brdf # None
       => \A j \in 1 .. Len(traced) :
             LET before == traced[j]
                 reflection == hit'[1].reflection
                 draw == hit'[1].draw
                 reflectance ==
                     RMul(before.reflectance,
                          RMul(reflection.color[before.wavelength],
                               reflection.scale))
                 light_sum ==
                     IF lights = 0 THEN Zero
                     ELSE RMul(draw.emission[before.wavelength], draw.gain)
             IN  \E after \in SamplesAfter :
                    /\ after.wavelength = before.wavelength
                    /\ after.sample_light = ~RGt(light_sum, Zero)
                    /\ after.brightness =
                          IF RGt(light_sum, Zero)
                          THEN RAdd(before.brightness,
                                    RMul(reflectance, light_sum))
                          ELSE before.brightness]_vars

\* C21: when a hit returns Reflect with brdf absent, trace and trace_branch
\* do not call the direct-light estimator for that bounce, add nothing to
\* brightness, multiply reflectance only by color(wavelength) * scale, and
\* leave every surviving sample with sample_light = true regardless of its
\* previous value.
C21_SpecularReflect ==
    [][HitKind(hit', "Reflect") /\ hit'[1].reflection.brdf = None =>
          LET reflection == hit'[1].reflection
              Reflected(before, after) ==
                  /\ after.wavelength = before.wavelength
                  /\ after.brightness = before.brightness
                  /\ after.reflectance =
                        RMul(before.reflectance,
                             RMul(reflection.color[before.wavelength],
                                  reflection.scale))
              Returned == IF branch' # None THEN branch'[1].sample
                          ELSE completed'[Len(completed')]
          IN  /\ directLight' = directLight
              /\ CASE tpc = "loop" ->
                        /\ \A j \in 1 .. Len(traced) :
                              \E after \in SamplesAfter :
                                 /\ Reflected(traced[j], after)
                                 /\ after.reflectance # Zero =>
                                       after.sample_light
                        /\ \A k \in 1 .. Len(traced') :
                              traced'[k].sample_light
                   [] tpc = "disperse" ->
                        /\ Reflected(pairs[1][1], Returned)
                        /\ Returned.sample_light
                   [] tpc = "branch" ->
                        /\ Reflected(branch[1].sample, Returned)
                        /\ Returned.sample_light
                   [] OTHER -> FALSE]_vars

\* C21 witness: a sample whose sample_light flag a direct-light sum of 1
\* had cleared at the first bounce hit a mirror at the second and came
\* back with the flag set and its brightness still 1.
C21_Witness ==
    /\ tpc = "done"
    /\ ended = "exhausted"
    /\ bounce = 2
    /\ hit = Hit(PlainMirror, NoDraw)
    /\ Len(completed) = 1
    /\ completed[1].brightness = One
    /\ completed[1].reflectance = R(1, 2)
    /\ completed[1].sample_light

\* C22: at the start of every iteration of trace's bounce loop the vectors
\* traced and wavelengths have the same length and traced[i].wavelength =
\* wavelengths[i] for every i; after a Reflect bounce a sample is moved to
\* completed exactly when its new reflectance is 0, and no sample remaining
\* in traced has reflectance 0.
C22_ParallelVectors ==
    /\ [](tpc = "loop" =>
            /\ Len(traced) = Len(wavelengths)
            /\ \A j \in 1 .. Len(traced) :
                  /\ traced[j].wavelength = wavelengths[j]
                  /\ traced[j].reflectance # Zero)
    /\ [][tpc = "loop" /\ HitKind(hit', "Reflect") /\ tpc' = "loop" =>
            LET reflection == hit'[1].reflection
                Moved == {completed'[k] :
                             k \in Len(completed) + 1 .. Len(completed')}
                Alive == {traced'[k] : k \in 1 .. Len(traced')}
            IN  /\ Len(traced') + Len(completed')
                      = Len(traced) + Len(completed)
                /\ \A j \in 1 .. Len(traced) :
                      LET w == traced[j].wavelength
                          new_reflectance ==
                              RMul(RMul(traced[j].reflectance,
                                        RMul(reflection.color[w],
                                             reflection.scale)),
                                   BrdfScale(reflection.brdf))
                      IN  IF new_reflectance = Zero
                          THEN /\ \E c \in Moved : c.wavelength = w
                               /\ \A t \in Alive : t.wavelength # w
                          ELSE /\ \E t \in Alive :
                                     /\ t.wavelength = w
                                     /\ t.reflectance = new_reflectance
                               /\ \A c \in Moved : c.wavelength # w]_vars

\* C22 witness: of two samples the first was absorbed at the first bounce
\* (the colour is 0 at 400 nm); swap_remove moved the 500 nm sample and its
\* wavelength to index 0 and the loop goes on with them.
C22_Witness ==
    /\ tpc = "loop"
    /\ bounce = 1
    /\ traceArgs[1].wavelengths = <<Num(400), Num(500)>>
    /\ wavelengths = <<Num(500)>>
    /\ Len(traced) = 1
    /\ traced[1].wavelength = Num(500)
    /\ Len(completed) = 1
    /\ completed[1].wavelength = Num(400)
    /\ completed[1].reflectance = Zero

\* the sum a record of trace_direct holds for a wavelength, 0 if none
DirectSumOf(record, w) ==
    LET ks == {k \in 1 .. Len(record.sum) :
                  k <= Len(record.wavelengths) /\ record.wavelengths[k] = w}
    IN  IF ks = {} THEN Zero ELSE record.sum[CHOOSE k \in ks : TRUE]

\* C23: for every scene and every max_bounces, no wavelength sample takes
\* part in more than max_bounces intersection queries in total, counting
\* the bounces before a Disperse in trace and those after it in
\* trace_branch (which receives max_bounces - current_bounce - 1); when the
\* budget is exhausted the remaining samples are returned with their
\* brightness unchanged.
C23_BounceBudget ==
    /\ [](traceArgs # None =>
            /\ queries.trace + queries.branch <= traceArgs[1].bounces
            /\ tpc = "branch" =>
                  branch[1].left + queries.branch
                      = traceArgs[1].bounces - queries.trace)
    /\ [][tpc = "idle" /\ tpc' = "done" =>
            /\ Len(completed') = Len(traceArgs'[1].wavelengths)
            /\ \A j \in 1 .. Len(completed') :
                  completed'[j] = NewSample(traceArgs'[1].wavelengths[j])]_vars
    /\ [][HitKind(hit', "Reflect") =>
            LET reflection == hit'[1].reflection
                Brightness(before) ==
                    LET sum == IF reflection.brdf = None THEN Zero
                               ELSE DirectSumOf(directLight'[1],
                                                before.wavelength)
                    IN  IF RGt(sum, Zero)
                        THEN RAdd(before.brightness,
                                  RMul(RMul(before.reflectance,
                                            RMul(reflection.color[before.wavelength],
                                                 reflection.scale)),
                                       sum))
                        ELSE before.brightness
            IN  /\ tpc = "loop" /\ ended' = "exhausted" =>
                      /\ tpc' = "done"
                      /\ Len(completed') = Len(completed) + Len(traced)
                      /\ \A j \in 1 .. Len(traced) :
                            \E k \in Len(completed) + 1 .. Len(completed') :
                               /\ completed'[k].wavelength = traced[j].wavelength
                               /\ completed'[k].brightness = Brightness(traced[j])
                /\ tpc = "branch" /\ branch[1].left = 1 =>
                      /\ branch' = None
                      /\ completed'[Len(completed')].brightness
                            = Brightness(branch[1].sample)
                /\ tpc = "disperse"
                   /\ traceArgs[1].bounces = queries.trace =>
                      /\ branch' = None
                      /\ completed'[Len(completed')].brightness
                            = Brightness(pairs[1][1])]_vars

\* C23 witness: with max_bounces = 2 a sample was dispersed at the first
\* intersection, hit a reflecting surface in trace_branch at the second
\* and was returned there.
C23_Witness ==
    /\ tpc = "done"
    /\ ended = "disperse"
    /\ traceArgs[1].bounces = 2
    /\ queries = [trace |-> 1, branch |-> 1]
    /\ HitKind(hit, "Reflect")
    /\ completed # <<>>
    /\ completed[Len(completed)].reflectance # Zero

\* the last element of the last element ... of a Disperse nested at most
\* twice, <<>> when an empty Disperse is met on the way
LastOfLast(nested) ==
    LET outer == nested.reflections
    IN  IF outer = <<>> THEN <<>>
        ELSE LET r1 == outer[Len(outer)]
             IN  IF r1.kind # "Disperse" THEN <<r1>>
                 ELSE IF r1.reflections = <<>> THEN <<>>
                 ELSE <<r1.reflections[Len(r1.reflections)]>>

\* C24: when a branch of a Disperse is itself a Disperse, trace and
\* trace_branch replace it by its last element, repeatedly, until a Reflect
\* or Emit leaf is reached, and then treat that leaf exactly as a direct
\* branch; a nested Disperse with no elements aborts the trace with an
\* internal error instead of returning samples.
C24_NestedDisperse ==
    /\ [][/\ tpc \in {"disperse", "branch"}
          /\ hit' # None
          /\ hit'[1].returned.kind = "Disperse"
          => LET last == LastOfLast(hit'[1].returned)
                 sample == IF tpc = "disperse" THEN pairs[1][1]
                           ELSE branch[1].sample
                 a == traceArgs[1]
                 Returned == IF branch' # None THEN branch'[1].sample
                             ELSE completed'[Len(completed')]
             IN  IF last = <<>>
                 THEN /\ tpc' = "panic"
                      /\ completed' = completed
                 ELSE /\ hit'[1].reflection = last[1]
                      /\ last[1].kind \in {"Reflect", "Emit"}
                      /\ tpc' # "panic"
                      /\ last[1].kind = "Emit" =>
                            /\ completed' =
                                  Append(completed,
                                         EmitInto(sample, last[1].color))
                            /\ branch' = None
                      /\ last[1].kind = "Reflect" /\ tpc = "disperse" =>
                            Returned = DisperseReflect(sample, last[1],
                                          a.light_samples, lights,
                                          hit'[1].draw)
                      /\ last[1].kind = "Reflect" /\ tpc = "branch" =>
                            Returned = BranchReflect(sample, last[1],
                                          a.light_samples, lights,
                                          hit'[1].draw)]_vars
    /\ [][tpc # "panic"]_vars

\* C24 witness: a branch Disperse([Emit, Disperse([Emit, mirror])]) of
\* trace's Disperse arm was walked down to the mirror, which reflected the
\* sample as a direct mirror branch does.
C24_Witness ==
    /\ hit # None
    /\ hit[1].returned =
          Disperse(<<Emit(ConstOne),
                     Disperse(<<Emit(ConstHalf), PlainMirror>>)>>)
    /\ hit[1].reflection = PlainMirror
    /\ tpc = "branch"
    /\ queries.branch = 0
    /\ branch[1].sample.reflectance = One
    /\ branch[1].sample.brightness = Zero

\* the number of samples of a vector that have this wavelength
CountOf(samples, w) ==
    Cardinality({j \in 1 .. Len(samples) : samples[j].wavelength = w})

\* C26: for every sequence of hits, misses and material responses, trace
\* returns exactly one completed sample for each input wavelength (the same
\* multiset of wavelengths, none lost or duplicated), whether the path
\* ends by miss, Emit, Disperse, absorption or bounce exhaustion.
C26_OneSamplePerWavelength ==
    tpc = "done" =>
        LET wls == traceArgs[1].wavelengths
        IN  /\ Len(completed) = Len(wls)
            /\ \A w \in TraceWavelengths :
                  CountOf(completed, w)
                      = Cardinality({j \in 1 .. Len(wls) : wls[j] = w})
            /\ ended \in {"miss", "emit", "disperse", "exhausted"}

\* C26 witness: of two samples one was absorbed at the first bounce and
\* the other was dispersed at the second; both came back.
C26_Witness ==
    /\ tpc = "done"
    /\ ended = "disperse"
    /\ bounce = 1
    /\ traceArgs[1].wavelengths = <<Num(400), Num(500)>>
    /\ Len(completed) = 2
    /\ completed[1].wavelength = Num(400)
    /\ completed[1].reflectance = Zero
    /\ completed[2].wavelength = Num(500)

(***************************************************************************)
(* The driver of the simple renderer  (renderer/simple.rs 15-52).          *)
(* WorkPool::do_work runs the per-item closure for every item on its       *)
(* workers and calls the completion closure serially, in submission order. *)
(***************************************************************************)
notRender == <<getVars, segVars, mathVars, traceVars, poolVars, tileVars, exprVars,
      curveVars>>

\* integer division before the multiplication
ProgressWholeTiles(done, n) == ((done \div n) * 100) % 256

\* ((progress * 100) / num_tiles) as u8, line 47
ProgressPercent(done, n) == ((done * 100) \div n) % 256

InitRender ==
    /\ GetIdle /\ SegIdle /\ MathIdle /\ TraceIdle
    /\ sky = None
    /\ traced = <<>>
    /\ wavelengths = <<>>
    /\ completed = <<>>
    /\ pairs = <<>>
    /\ branch = None
    /\ firstHit = None
    /\ allMirror = TRUE
    /\ ended = "no"
    /\ directLight = None
    /\ rpc = "idle"
    /\ num_tiles = 0
    /\ workers \in 1 .. MaxWorkers
    /\ tileState = <<>>
    /\ progress = 0
    /\ statuses = <<>>
    /\ notified = <<>>
    /\ PoolIdle /\ TileIdle /\ ExprIdle /\ CurveIdle

\* lines 28-32: the first status
RenderAnnounce ==
    /\ rpc = "idle"
    /\ rpc' = "announced"
    /\ statuses' = Append(statuses, 0)
    /\ UNCHANGED <<num_tiles, workers, tileState, progress, notified, notRender>>

\* lines 34-39: the tiles are made and handed to do_work
RenderMakeTiles ==
    /\ rpc = "announced"
    /\ \E n \in 0 .. MaxTiles :
          /\ num_tiles' = n
          /\ tileState' = [t \in 1 .. n |-> "queued"]
    /\ progress' = 0
    /\ rpc' = "working"
    /\ UNCHANGED <<workers, statuses, notified, notRender>>

Running == {t \in 1 .. num_tiles : tileState[t] = "running"}

\* a free worker takes a tile and starts the per-item closure, lines 40-42
StartTile ==
    /\ rpc = "working"
    /\ Cardinality(Running) < workers
    /\ \E t \in 1 .. num_tiles :
          /\ tileState[t] = "queued"
          /\ tileState' = [tileState EXCEPT ![t] = "running"]
    /\ UNCHANGED <<rpc, num_tiles, workers, progress, statuses, notified,
                   notRender>>

\* render_tile returns for a tile
FinishTile ==
    /\ rpc = "working"
    /\ \E t \in Running : tileState' = [tileState EXCEPT ![t] = "finished"]
    /\ UNCHANGED <<rpc, num_tiles, workers, progress, statuses, notified,
                   notRender>>

\* the completion closure, lines 43-49, for the next tile in submission
\* order
OnComplete ==
    /\ rpc = "working"
    /\ Len(notified) < num_tiles
    /\ tileState[Len(notified) + 1] = "finished"
    /\ progress' = progress + 1
    /\ statuses' = Append(statuses, ProgressPercent(progress + 1, num_tiles))
    /\ notified' = Append(notified, Len(notified) + 1)
    /\ UNCHANGED <<rpc, num_tiles, workers, tileState, notRender>>

\* do_work returns once the completion closure ran for every item
RenderReturns ==
    /\ rpc = "working"
    /\ Len(notified) = num_tiles
    /\ rpc' = "done"
    /\ UNCHANGED <<num_tiles, workers, tileState, progress, statuses, notified,
                   notRender>>

NextRender ==
    \/ RenderAnnounce
    \/ RenderMakeTiles
    \/ StartTile
    \/ FinishTile
    \/ OnComplete
    \/ RenderReturns

SpecRender == InitRender /\ [][NextRender]_vars

\* C12: on_status is first called with 0, before any tile is scheduled; the
\* completion callback runs exactly once per tile and its k-th run reports
\* floor(100 k / num_tiles); the reports never decrease, never exceed 100,
\* and the last one is 100 when there is at least one tile.
C12_ProgressReports ==
    /\ (rpc # "idle") => Len(statuses) >= 1 /\ statuses[1] = 0
    /\ (\E t \in 1 .. Len(tileState) : tileState[t] # "queued")
          => Len(statuses) >= 1
    /\ Len(statuses) = (IF rpc = "idle" THEN 0 ELSE 1) + Len(notified)
    /\ \A k \in 1 .. Len(notified) :
          /\ notified[k] \in 1 .. num_tiles
          /\ statuses[k + 1] = (100 * k) \div num_tiles
          /\ \A l \in 1 .. Len(notified) : notified[k] = notified[l] => k = l
    /\ \A k \in 1 .. Len(statuses) :
          /\ statuses[k] <= 100
          /\ k > 1 => statuses[k - 1] <= statuses[k]
    /\ rpc = "done" =>
          /\ {notified[k] : k \in 1 .. Len(notified)} = 1 .. num_tiles
          /\ num_tiles >= 1 => statuses[Len(statuses)] = 100

\* C12 witness: three tiles were rendered and the statuses were 0, 33, 66
\* and 100.
C12_Witness ==
    /\ rpc = "done"
    /\ num_tiles = 3
    /\ statuses = <<0, 33, 66, 100>>

(***************************************************************************)
(* The driver of main.rs  (render, lines 61-141): tile_count tasks on a    *)
(* TaskPool pop a tile from pending under its write lock, render it and    *)
(* push it to completed; the main thread collects the completed tiles.     *)
(***************************************************************************)
notPool == <<getVars, segVars, mathVars, traceVars, renderVars, tileVars, exprVars,
      curveVars>>

\* the pop leaves the vector as it was
PopKeeps(v) == v

\* Vec::pop: what is left of the vector, lines 98 and 118
PopRest(v) == SubSeq(v, 1, Len(v) - 1)

\* the loop stops one tile short
MoreTilesButOne(counter, count) == counter + 1 < count

\* while tile_counter < tile_count, line 113
MoreTiles(counter, count) == counter < count

InitPool ==
    /\ GetIdle /\ SegIdle /\ MathIdle /\ TraceIdle /\ RenderIdle /\ TileIdle /\ ExprIdle
    /\ CurveIdle
    /\ sky = None
    /\ traced = <<>>
    /\ wavelengths = <<>>
    /\ completed = <<>>
    /\ pairs = <<>>
    /\ branch = None
    /\ firstHit = None
    /\ allMirror = TRUE
    /\ ended = "no"
    /\ directLight = None
    /\ tile_count \in 0 .. MaxTiles
    /\ threads \in 1 .. MaxWorkers
    /\ pending = [t \in 1 .. tile_count |-> t]
    /\ completedTiles = <<>>
    /\ spawned = 0
    /\ taskPc = [k \in 1 .. tile_count |-> "queued"]
    /\ taskTile = [k \in 1 .. tile_count |-> 0]
    /\ pushes = [t \in 1 .. tile_count |-> 0]
    /\ mpc = "spawn"
    /\ tile_counter = 0
    /\ copied = [t \in 1 .. tile_count |-> 0]

\* the for loop of lines 95-107: one pool.execute, or the end of the loop
Execute ==
    /\ mpc = "spawn"
    /\ IF spawned < tile_count
       THEN spawned' = spawned + 1 /\ mpc' = mpc
       ELSE spawned' = spawned /\ mpc' = "loop"
    /\ UNCHANGED <<tile_count, threads, pending, completedTiles, taskPc,
                   taskTile, pushes, tile_counter, copied, notPool>>

Rendering == {k \in 1 .. tile_count : taskPc[k] = "rendering"}

\* a thread of the pool starts a task: pending.write().pop().unwrap(),
\* lines 97-99
TaskPop ==
    /\ Cardinality(Rendering) < threads
    /\ \E k \in 1 .. spawned :
          /\ taskPc[k] = "queued"
          /\ IF pending = <<>>
             THEN /\ taskPc' = [taskPc EXCEPT ![k] = "panicked"]
                  /\ UNCHANGED <<pending, taskTile>>
             ELSE /\ taskPc' = [taskPc EXCEPT ![k] = "rendering"]
                  /\ taskTile' = [taskTile EXCEPT ![k] = pending[Len(pending)]]
                  /\ pending' = PopRest(pending)
    /\ UNCHANGED <<tile_count, threads, completedTiles, spawned, pushes, mpc,
                   tile_counter, copied, notPool>>

\* the task renders its tile and pushes it, lines 103-105
TaskPush ==
    /\ \E k \in Rendering :
          /\ completedTiles' = Append(completedTiles, taskTile[k])
          /\ pushes' = [pushes EXCEPT ![taskTile[k]] = @ + 1]
          /\ taskPc' = [taskPc EXCEPT ![k] = "finished"]
    /\ UNCHANGED <<tile_count, threads, pending, spawned, taskTile, mpc,
                   tile_counter, copied, notPool>>

\* the test of the while loop, line 113 (and the sleep of line 114)
MainTest ==
    /\ mpc = "loop"
    /\ mpc' = IF MoreTiles(tile_counter, tile_count) THEN "collect" ELSE "done"
    /\ UNCHANGED <<tile_count, threads, pending, completedTiles, spawned,
                   taskPc, taskTile, pushes, tile_counter, copied, notPool>>

\* one turn of the inner loop, lines 117-131: a completed tile is popped and
\* copied, or there is none and the image is written, lines 133-137
MainPop ==
    /\ mpc = "collect"
    /\ IF completedTiles # <<>>
       THEN /\ copied' = [copied EXCEPT ![completedTiles[Len(completedTiles)]] = @ + 1]
            /\ completedTiles' = PopRest(completedTiles)
            /\ tile_counter' = tile_counter + 1
            /\ mpc' = mpc
       ELSE /\ mpc' = "loop"
            /\ UNCHANGED <<completedTiles, tile_counter, copied>>
    /\ UNCHANGED <<tile_count, threads, pending, spawned, taskPc, taskTile,
                   pushes, notPool>>

NextPool ==
    \/ Execute
    \/ TaskPop
    \/ TaskPush
    \/ MainTest
    \/ MainPop

SpecPool == InitPool /\ [][NextPool]_vars

\* every spawned task is run to its end by the pool and the main thread
\* keeps running
SpecPoolFair ==
    /\ SpecPool
    /\ WF_vars(Execute)
    /\ WF_vars(TaskPop)
    /\ WF_vars(TaskPush)
    /\ WF_vars(MainTest)
    /\ WF_vars(MainPop)

\* C13: whatever the interleaving of the tile_count tasks, no task finds
\* pending empty, no two tasks get the same tile, no tile is pushed to
\* completed twice, and once every task has finished every tile has been
\* rendered by one task and pushed once.
C13_EachTileRenderedOnce ==
    /\ \A k \in 1 .. tile_count : taskPc[k] # "panicked"
    /\ \A k \in 1 .. tile_count :
          /\ taskPc[k] = "queued" <=> taskTile[k] = 0
          /\ taskTile[k] # 0 =>
                /\ taskTile[k] \in 1 .. tile_count
                /\ \A l \in 1 .. tile_count : taskTile[l] = taskTile[k] => l = k
                /\ \A j \in 1 .. Len(pending) : pending[j] # taskTile[k]
    /\ \A t \in 1 .. tile_count :
          pushes[t] = IF \E k \in 1 .. tile_count :
                            taskPc[k] = "finished" /\ taskTile[k] = t
                      THEN 1 ELSE 0
    /\ (\A k \in 1 .. tile_count : taskPc[k] = "finished") =>
          /\ pending = <<>>
          /\ {taskTile[k] : k \in 1 .. tile_count} = 1 .. tile_count

\* C13 witness: three tasks on two threads have all finished, and the task
\* spawned first was not the first to pop.
C13_Witness ==
    /\ tile_count = 3
    /\ threads = 2
    /\ \A k \in 1 .. tile_count : taskPc[k] = "finished"
    /\ taskTile[1] = 1
    /\ \A t \in 1 .. tile_count : pushes[t] = 1

\* C14: the collection loop reaches "Done!" only after it has popped
\* exactly tile_count tiles from completed, each copied into the pixel
\* buffer once; and when every task eventually finishes its tile the loop
\* eventually reaches "Done!".
C14_CollectsAllThenDone ==
    /\ [](mpc = "done" =>
            /\ tile_counter = tile_count
            /\ completedTiles = <<>>
            /\ \A t \in 1 .. tile_count : copied[t] = 1)
    /\ <>(mpc = "done")

\* C14 witness: three tiles, all collected, and the loop has ended.
C14_Witness ==
    /\ mpc = "done"
    /\ tile_count = 3
    /\ tile_counter = 3
    /\ \A t \in 1 .. tile_count : copied[t] = 1

(***************************************************************************)
(* render_tile  (renderer/simple.rs 54-126).  A position is the pixel of   *)
(* the tile it falls in; what trace leaves in path and what contribute     *)
(* returns are chosen by the environment.                                  *)
(***************************************************************************)
notTile == <<getVars, segVars, mathVars, traceVars, renderVars, poolVars, exprVars,
      curveVars>>

\* the areas of the tiles render_tile is called on
TileAreas == {1, 2}

\* one turn per pixel sample, whatever the area
IterationsPerPixel(area, samples) == samples

\* tile.area() * renderer.pixel_samples as usize, line 67
Iterations(area, samples) == area * samples

\* the additional samples of an iteration, lines 96-106
AdditionalSamples(spectrum) == spectrum - 1

\* used_additional after the loops of lines 108-116: contribute has
\* returned true for every bounce of the path and additional sample
UsedAdditional(pathLen, additional, contributed) ==
    \A b \in 1 .. pathLen : \A a \in 1 .. additional : contributed[b][a]

\* a contribute that is only called while used_additional holds
CallsContributeIfUsed(used_additional) == used_additional

\* line 111, contribute(..) && used_additional: the call comes first, so
\* it is made whatever used_additional holds
CallsContribute(used_additional) == TRUE

\* the loops of lines 108-116 from the k-th (bounce, additional sample)
\* pair on: used_additional and the calls of contribute made
RECURSIVE ContributeLoop(_, _, _, _, _)
ContributeLoop(k, pathLen, additional, contributed, acc) ==
    IF k > pathLen * additional THEN acc
    ELSE LET b == ((k - 1) \div additional) + 1
             a == ((k - 1) % additional) + 1
             called == CallsContribute(acc.used)
         IN  ContributeLoop(k + 1, pathLen, additional, contributed,
                [used |-> IF called THEN contributed[b][a] /\ acc.used
                          ELSE FALSE,
                 calls |-> IF called THEN acc.calls + 1 ELSE acc.calls])

InitTile ==
    /\ GetIdle /\ SegIdle /\ MathIdle /\ TraceIdle /\ RenderIdle /\ PoolIdle /\ ExprIdle
    /\ CurveIdle
    /\ sky = None
    /\ traced = <<>>
    /\ wavelengths = <<>>
    /\ completed = <<>>
    /\ pairs = <<>>
    /\ branch = None
    /\ firstHit = None
    /\ allMirror = TRUE
    /\ ended = "no"
    /\ directLight = None
    /\ tileArea \in TileAreas
    /\ pixel_samples \in 1 .. MaxPixelSamples
    /\ spectrum_samples \in 1 .. MaxSpectrumSamples
    /\ tilePc = "loop"
    /\ tileIter = 0
    /\ traceCalls = 0
    /\ position = 0
    /\ mainExposed = [px \in 1 .. tileArea |-> 0]
    /\ extraExposed = [px \in 1 .. tileArea |-> 0]
    /\ tilePath = None
    /\ contributeCalls = [additional |-> 0, main |-> 0]

\* one turn of the loop, lines 67-125
TileIteration ==
    /\ tilePc = "loop"
    /\ tileIter < Iterations(tileArea, pixel_samples)
    /\ \E px \in 1 .. tileArea, pathLen \in 0 .. MaxBounces :
        \E contributed \in [1 .. pathLen ->
                               [1 .. AdditionalSamples(spectrum_samples) -> BOOLEAN]] :
          LET loop == ContributeLoop(1, pathLen,
                                     AdditionalSamples(spectrum_samples),
                                     contributed, [used |-> TRUE, calls |-> 0])
              used_additional == loop.used
          IN  /\ position' = px
              /\ tilePath' = Some([pathLen |-> pathLen,
                                   contributed |-> contributed])
              /\ contributeCalls' = [additional |-> loop.calls,
                                     main |-> pathLen]
              /\ mainExposed' = [mainExposed EXCEPT ![px] = @ + 1]
              /\ extraExposed' =
                    IF used_additional
                    THEN [extraExposed EXCEPT
                            ![px] = @ + AdditionalSamples(spectrum_samples)]
                    ELSE extraExposed
    /\ traceCalls' = traceCalls + 1
    /\ tileIter' = tileIter + 1
    /\ UNCHANGED <<tileArea, pixel_samples, spectrum_samples, tilePc, notTile>>

\* the loop is over and render_tile returns, line 126
TileReturn ==
    /\ tilePc = "loop"
    /\ tileIter >= Iterations(tileArea, pixel_samples)
    /\ tilePc' = "done"
    /\ UNCHANGED <<tileArea, pixel_samples, spectrum_samples, tileIter,
                   traceCalls, position, mainExposed, extraExposed, tilePath,
                   contributeCalls, notTile>>

NextTile ==
    \/ TileIteration
    \/ TileReturn

SpecTile == InitTile /\ [][NextTile]_vars

RECURSIVE SumTo(_, _)
SumTo(f, n) == IF n = 0 THEN 0 ELSE f[n] + SumTo(f, n - 1)

\* C15: render_tile runs tile.area() * pixel_samples iterations; each calls
\* trace once and exposes the main sample once, at the sampled position;
\* with spectrum_samples = 1 there are no additional samples, so the film
\* gets exactly tile.area() * pixel_samples exposures from the tile.
C15_OneExposurePerIteration ==
    /\ [][tileIter' # tileIter =>
            /\ tileIter' = tileIter + 1
            /\ traceCalls' = traceCalls + 1
            /\ position' \in 1 .. tileArea
            /\ \A px \in 1 .. tileArea :
                  mainExposed'[px]
                     = mainExposed[px] + (IF px = position' THEN 1 ELSE 0)]_vars
    /\ [](/\ traceCalls = tileIter
          /\ SumTo(mainExposed, tileArea) = tileIter
          /\ tilePc = "done" =>
                /\ tileIter = tileArea * pixel_samples
                /\ spectrum_samples = 1 =>
                      SumTo(mainExposed, tileArea) + SumTo(extraExposed, tileArea)
                         = tileArea * pixel_samples)

\* C15 witness: a tile of two pixels with two pixel samples and one
\* spectrum sample was rendered: four exposures, three of them on pixel 2.
C15_Witness ==
    /\ tilePc = "done"
    /\ tileArea = 2
    /\ pixel_samples = 2
    /\ spectrum_samples = 1
    /\ mainExposed = <<1, 3>>
    /\ extraExposed = <<0, 0>>

\* C27: in each render_tile iteration the additional wavelength samples
\* are exposed all-or-nothing: all spectrum_samples - 1 of them are exposed
\* if contribute returned true for every (bounce, additional sample) pair
\* of the path, and none is exposed otherwise; contribute is still applied
\* to every pair after the first false, and the main sample is exposed in
\* both cases.
C27_AdditionalAllOrNothing ==
    [][tileIter' = tileIter + 1 =>
          LET px == position'
              additional == spectrum_samples - 1
              path == tilePath'[1]
              all_true == UsedAdditional(path.pathLen, additional,
                                         path.contributed)
          IN  /\ mainExposed'[px] = mainExposed[px] + 1
              /\ extraExposed'[px] =
                    extraExposed[px] + (IF all_true THEN additional ELSE 0)
              /\ \A q \in (1 .. tileArea) \ {px} :
                    /\ mainExposed'[q] = mainExposed[q]
                    /\ extraExposed'[q] = extraExposed[q]
              /\ contributeCalls'.additional = path.pathLen * additional
              /\ contributeCalls'.main = path.pathLen]_vars

\* C27 witness: with two additional samples and a path of two bounces,
\* contribute returned false for the first pair and true for the other
\* three; it was called four times, the main sample was exposed and no
\* additional one.
C27_Witness ==
    /\ tileIter = 1
    /\ spectrum_samples = 3
    /\ tilePath # None
    /\ tilePath[1].pathLen = 2
    /\ tilePath[1].contributed = <<<<FALSE, TRUE>>, <<TRUE, TRUE>>>>
    /\ contributeCalls = [additional |-> 4, main |-> 2]
    /\ mainExposed[position] = 1
    /\ extraExposed[position] = 0

(***************************************************************************)
(* Math::from_expression  (math.rs 415-455), NoOp::try_from (462-482) and  *)
(* Fresnel::from_complex_expression (523-542).  An f64 is a multiple of    *)
(* 1/4 and an f32 a multiple of 1/2, so that `as f32` rounds.  The value   *)
(* type T is a parameter: it is given by the variants it accepts and by    *)
(* whether the error it rejects the others with names the variant.         *)
(***************************************************************************)
notExpr ==
    <<getVars, segVars, mathVars, traceVars, renderVars, poolVars, tileVars,
      curveVars>>

Number(number) == [kind |-> "Number", number |-> number]

Boolean(b) == [kind |-> "Boolean", boolean |-> b]

Complex(variant, fields) ==
    [kind |-> "Complex", variant |-> variant, fields |-> fields]

Ok(math) == [ok |-> TRUE, math |-> math]

Err(error) == [ok |-> FALSE, error |-> error]

\* the message of NoOp::try_from for each variant, lines 466-480
NoOpMessage(variant) ==
    CASE variant = "Vector" -> "vectors cannot be used in this context"
      [] variant = "Fresnel" -> "Fresnel cannot be used in this context"
      [] variant = "LightSource" -> "light sources cannot be used in this context"
      [] variant = "Spectrum" -> "spectra cannot be used in this context"
      [] variant = "Rgb" -> "RGB cannot be used in this context"
      [] variant = "Texture" -> "textures cannot be used in this context"
      [] variant = "Add" -> "addition cannot be used in this context"
      [] variant = "Sub" -> "subtraction cannot be used in this context"
      [] variant = "Mul" -> "multiplication cannot be used in this context"
      [] variant = "Div" -> "division cannot be used in this context"
      [] variant = "Mix" -> "mix cannot be used in this context"

\* number as f32, line 429: to the nearest multiple of 1/2, ties to even
AsF32(number) ==
    LET quarters == number[1] * (4 \div number[2])
        halves == quarters \div 2
    IN  IF quarters % 2 = 0 THEN R(halves, 2)
        ELSE IF halves % 2 = 0 THEN R(halves, 2)
        ELSE R(halves + 1, 2)

\* T::from(f32), line 415: the constant
Constant(x) == Value([w \in Wavelengths |-> x])

\* the T value made from a variant T accepts
TValueOf(variant) ==
    [w \in Wavelengths |->
        IF variant = "Spectrum" /\ w = Num(400) THEN R(1, 2) ELSE Num(2)]

\* T::from_complex_expression: T is not fixed by Math; the error is its own
TFromComplex(t, complex) ==
    IF complex.variant \in t.accepts
    THEN Ok(Value(TValueOf(complex.variant)))
    ELSE Err(IF t.names THEN NoOpMessage(complex.variant)
             ELSE "expected a value")

RECURSIVE from_expression(_, _, _)
RECURSIVE FresnelFromComplex(_, _)

\* Fresnel::from_complex_expression, lines 527-542; the operands are
\* RenderMath<T>, and an absent env_ior is 1.0
FresnelFromComplex(complex, t) ==
    IF complex.variant = "Fresnel"
    THEN LET ior == from_expression(complex.fields.ior, "Fresnel", t)
             env_ior == IF complex.fields.env_ior = None
                        THEN Ok(Constant(One))
                        ELSE from_expression(complex.fields.env_ior[1],
                                             "Fresnel", t)
         IN  IF ~ior.ok THEN ior
             ELSE IF ~env_ior.ok THEN env_ior
             ELSE Ok([kind |-> "Fresnel", ior |-> ior.math,
                      env_ior |-> env_ior.math])
    ELSE Err("expected a Fresnel expression")

\* E::from_complex_expression for the two extra types of the file
EFromComplex(e, complex, t) ==
    IF e = "NoOp" THEN Err(NoOpMessage(complex.variant))
    ELSE FresnelFromComplex(complex, t)

\* Math::from_expression, lines 425-455, with Operator::from_binary
\* (lines 367-391); `?` returns the first error of the operands
from_expression(expression, e, t) ==
    CASE expression.kind = "Number" -> Ok(Constant(AsF32(expression.number)))
      [] expression.kind = "Boolean" ->
            Err("Boolean values cannot be used in this context")
      [] expression.kind = "Complex" ->
            IF expression.variant \in BinaryOperators
            THEN LET a == from_expression(expression.fields.a, e, t)
                     b == from_expression(expression.fields.b, e, t)
                 IN  IF ~a.ok THEN a
                     ELSE IF ~b.ok THEN b
                     ELSE Ok([kind |-> expression.variant,
                              a |-> a.math, b |-> b.math])
            ELSE IF expression.variant = "Mix"
            THEN LET a == from_expression(expression.fields.a, e, t)
                     b == from_expression(expression.fields.b, e, t)
                     factor == from_expression(expression.fields.factor, e, t)
                 IN  IF ~a.ok THEN a
                     ELSE IF ~b.ok THEN b
                     ELSE IF ~factor.ok THEN factor
                     ELSE Ok([kind |-> "Mix", a |-> a.math, b |-> b.math,
                              factor |-> factor.math])
            ELSE LET extra == EFromComplex(e, expression, t)
                 IN  IF extra.ok THEN extra ELSE TFromComplex(t, expression)

LeafVariants == {"Vector", "LightSource", "Spectrum", "Rgb", "Texture"}

NoFields == <<>>

FresnelExpressions ==
    {Complex("Fresnel", [ior |-> ior, env_ior |-> env_ior]) :
        ior \in {Number(R(3, 2)), Complex("Vector", NoFields)},
        env_ior \in {None, Some(Number(Num(2))), Some(Boolean(TRUE))}}

LeafExpressions ==
    {Number(x) : x \in {Zero, R(1, 4), R(3, 4), R(3, 2)}}
    \cup {Boolean(TRUE), Boolean(FALSE)}
    \cup {Complex(v, NoFields) : v \in LeafVariants}
    \cup FresnelExpressions

Operands ==
    {Number(One), Boolean(TRUE), Complex("Vector", NoFields),
     Complex("Spectrum", NoFields)}

OperatorExpressions ==
    {Complex(op, [a |-> a, b |-> b]) :
        op \in BinaryOperators, a \in Operands, b \in Operands}
    \cup {Complex("Mix", [a |-> a, b |-> b, factor |-> f]) :
            a \in Operands, b \in Operands, f \in Operands}
    \cup {Complex("Add", [a |-> Complex("Mul", [a |-> Number(One), b |-> x]),
                          b |-> Number(R(1, 4))]) : x \in Operands}

Expressions == LeafExpressions \cup OperatorExpressions

ValueTypes == [accepts : {{}, {"Spectrum", "Rgb"}}, names : BOOLEAN]

InitExpr ==
    /\ GetIdle /\ SegIdle /\ MathIdle /\ TraceIdle
    /\ RenderIdle /\ PoolIdle /\ TileIdle /\ CurveIdle
    /\ sky = None
    /\ traced = <<>>
    /\ wavelengths = <<>>
    /\ completed = <<>>
    /\ pairs = <<>>
    /\ branch = None
    /\ firstHit = None
    /\ allMirror = TRUE
    /\ ended = "no"
    /\ directLight = None
    /\ exprIn = None
    /\ exprE \in {"NoOp", "Fresnel"}
    /\ exprT \in ValueTypes
    /\ exprOut = None

\* one call of Math::<T, E>::from_expression
FromExpression ==
    /\ exprIn = None
    /\ \E expression \in Expressions :
          /\ exprIn' = Some(expression)
          /\ exprOut' = Some(from_expression(expression, exprE, exprT))
    /\ UNCHANGED <<exprE, exprT, notExpr>>

NextExpr == FromExpression

SpecExpr == InitExpr /\ [][NextExpr]_vars

\* neither E nor T accepts the Complex expression
RejectedComplex(expression, e, t) ==
    /\ expression.kind = "Complex"
    /\ expression.variant \notin BinaryOperators \cup {"Mix"}
    /\ ~EFromComplex(e, expression, t).ok
    /\ expression.variant \notin t.accepts

notCurve ==
    <<segVars, schlickIn, schlickOut, traceVars, renderVars, poolVars,
      tileVars, exprVars>>

CurvePoints == {Num(400), Num(450), Num(500)} \X {Zero, One}

\* every list of up to three points, and some longer ones: sorted,
\* unsorted, with an x that occurs twice
CurveLists ==
    UNION {[1 .. k -> CurvePoints] : k \in 0 .. 3}
    \cup {<<<<Num(400), Zero>>, <<Num(450), One>>, <<Num(500), Zero>>,
            <<Num(550), One>>, <<Num(600), Zero>>>>,
          <<<<Num(400), Zero>>, <<Num(500), One>>, <<Num(450), One>>,
            <<Num(450), Zero>>, <<Num(600), One>>>>,
          <<<<Num(500), One>>, <<Num(400), Zero>>, <<Num(400), One>>,
            <<Num(600), Zero>>>>}

\* the inputs of the curve: constants around the points, and quotients
\* with a zero divisor
CurveInputs ==
    {Constant(R(x, 1)) : x \in {350, 400, 425, 450, 475, 500, 575, 650}}
    \cup {[kind |-> "Div", a |-> Constant(Num(n)), b |-> Constant(Zero)] :
            n \in {-1, 0, 1}}

InBounds(pts, i) == i \in 0 .. Len(pts) - 1

\* the loop goes on while max > min
LoopGoesOnToEqual(min, max) == max > min

\* while max > min + 1, line 80
LoopGoesOn(min, max) == max > min + 1

InitCurve == GetIdle /\ SegIdle /\ MathIdle /\ TraceIdle /\ DriverIdle

\* a Curve is built from a Math and a point list (lines 490-493), and a
\* context is taken to evaluate it on
CurveNew ==
    /\ mathExpr = None
    /\ points' \in CurveLists
    /\ mathExpr' \in {Some(m) : m \in CurveInputs}
    /\ mathCtx' \in {Some(i) : i \in RenderContexts}
    /\ UNCHANGED <<input, result, mathResult, curveVars, notCurve>>

\* Curve::get, lines 496-498, and Interpolated::get up to its loop, lines 59-78
CurveGet ==
    /\ mathExpr # None
    /\ cpc = "idle"
    /\ \E in \in {MathGet(mathExpr[1], mathCtx[1])}, max \in {Len(points) - 1} :
           /\ input' = Some(in)
           /\ mathResult' = Some(in)
           /\ IF Len(points) = 0
              THEN /\ result' = Some(Zero)
                   /\ cpc' = "returned"
                   /\ UNCHANGED <<cmin, cmax, creads>>
              ELSE IF RGe(At(points, 0)[1], in)
              THEN /\ result' = Some(Zero)
                   /\ cpc' = "returned"
                   /\ creads' = {0}
                   /\ UNCHANGED <<cmin, cmax>>
              ELSE IF RLe(At(points, max)[1], in)
              THEN /\ result' = Some(Zero)
                   /\ cpc' = "returned"
                   /\ creads' = {0, max}
                   /\ UNCHANGED <<cmin, cmax>>
              ELSE /\ cpc' = "loop"
                   /\ cmin' = 0
                   /\ cmax' = max
                   /\ creads' = {0, max}
                   /\ UNCHANGED result
    /\ UNCHANGED <<points, mathExpr, mathCtx, notCurve>>

\* one turn of the loop of lines 80-93, or its end and lines 95-104
GetLoop ==
    /\ cpc = "loop"
    /\ LET in == input[1]
           check == (cmax + cmin) \div 2
       IN  IF LoopGoesOn(cmin, cmax)
           THEN /\ creads' = creads \cup {check}
                /\ IF ~InBounds(points, check)
                   THEN cpc' = "panicked" /\ UNCHANGED <<cmin, cmax, result>>
                   ELSE IF REq(At(points, check)[1], in)
                   THEN /\ result' = Some(At(points, check)[2])
                        /\ cpc' = "returned"
                        /\ UNCHANGED <<cmin, cmax>>
                   ELSE IF RGt(At(points, check)[1], in)
                   THEN cmax' = check /\ UNCHANGED <<cmin, cpc, result>>
                   ELSE cmin' = check /\ UNCHANGED <<cmax, cpc, result>>
           ELSE /\ creads' = creads \cup {cmin, cmax}
                /\ UNCHANGED <<cmin, cmax>>
                /\ IF ~InBounds(points, cmin) \/ ~InBounds(points, cmax)
                   THEN cpc' = "panicked" /\ UNCHANGED result
                   ELSE LET min_x == At(points, cmin)[1]
                            min_y == At(points, cmin)[2]
                            max_x == At(points, cmax)[1]
                            max_y == At(points, cmax)[2]
                        IN  /\ cpc' = "returned"
                            /\ IF RLt(in, min_x) THEN result' = Some(Zero)
                               ELSE IF RGt(in, max_x) THEN result' = Some(Zero)
                               ELSE \E dy \in {RSub(max_y, min_y)},
                                       dx \in {RSub(in, min_x)},
                                       width \in {RSub(max_x, min_x)} :
                                     \E rise \in {RMul(dy, dx)} :
                                       \E slope \in {RDiv(rise, width)} :
                                         result' = Some(RAdd(min_y, slope))
    /\ UNCHANGED <<points, input, mathExpr, mathCtx, mathResult, notCurve>>

NextCurve ==
    \/ CurveNew
    \/ CurveGet
    \/ GetLoop

SpecCurve == InitCurve /\ [][NextCurve]_vars

\* the call is run to its end
SpecCurveFair == SpecCurve /\ WF_vars(NextCurve)

ZeroDivisor(m) ==
    m.kind = "Div" /\ MathGet(m.b, mathCtx[1]) = Zero

\* C17: Interpolated::get never reads points outside its bounds and always
\* returns, whatever the point list (empty, one point, an x twice,
\* unsorted) and the input; a Div by zero gives a non-finite value and no
\* failure; Curve::get returns the lookup of the value of its input.
C17_EvaluationIsTotal ==
    /\ [](cpc # "panicked")
    /\ [](\A k \in creads : InBounds(points, k))
    /\ <>(cpc = "returned")
    /\ [](cpc # "idle" /\ ZeroDivisor(mathExpr[1]) => ~Finite(input[1]))
    /\ [](cpc = "returned" =>
            result = Some(InterpolatedGet(points,
                                          MathGet(mathExpr[1], mathCtx[1]))))

\* C17 witness: on an unsorted list with an x twice, an input 0/0 went
\* through the loop and the lookup returned NaN.
C17_Witness ==
    /\ cpc = "returned"
    /\ Len(points) = 5
    /\ points[2][1] = Num(500)
    /\ points[3][1] = points[4][1]
    /\ input = Some(NaN)
    /\ result = Some(NaN)
    /\ Cardinality(creads) >= 4

(***************************************************************************)
(* Fresnel  (math.rs 501-542): built from an expression, then evaluated.   *)
(***************************************************************************)
notFresnel ==
    <<getVars, segVars, traceVars, renderVars, poolVars, tileVars, curveVars>>

\* the Fresnel expressions translated: with and without env_ior, and some
\* that are rejected
FresnelInputs ==
    {Complex("Fresnel", [ior |-> ior, env_ior |-> env_ior]) :
        ior \in {Number(One), Number(R(3, 2)), Number(Num(2)),
                 Complex("Vector", NoFields)},
        env_ior \in {None, Some(Number(R(3, 2))), Some(Number(Num(2))),
                     Some(Boolean(TRUE))}}

FresnelContexts ==
    [wavelength : Wavelengths, normal : {UnitZ}, incident : UnitVectors]

\* the front face also when the ray grazes the surface
FrontFaceOrGrazing(i) == RLe(Dot(i.incident, i.normal), Zero)

\* incident.dot(normal) < 0.0, line 515
FrontFace(i) == RLt(Dot(i.incident, i.normal), Zero)

\* the arguments Fresnel::get calls schlick with, lines 515-519
FresnelCall(fresnel, i) ==
    IF FrontFace(i)
    THEN [ref_index1 |-> MathGet(fresnel.env_ior, i),
          ref_index2 |-> MathGet(fresnel.ior, i),
          normal |-> i.normal, incident |-> i.incident]
    ELSE [ref_index1 |-> MathGet(fresnel.ior, i),
          ref_index2 |-> MathGet(fresnel.env_ior, i),
          normal |-> VNeg(i.normal), incident |-> i.incident]

InitFresnel == GetIdle /\ SegIdle /\ MathIdle /\ TraceIdle /\ DriverIdle

\* RenderMath::<T>::from_expression on a Fresnel expression, lines 450-451
\* and 527-542
FresnelBuild ==
    /\ exprIn = None
    /\ \E expression \in FresnelInputs, t \in ValueTypes :
          \E out \in {from_expression(expression, "Fresnel", t)} :
             /\ exprIn' = Some(expression)
             /\ exprE' = "Fresnel"
             /\ exprT' = t
             /\ exprOut' = Some(out)
             /\ mathExpr' = IF out.ok THEN Some(out.math) ELSE None
    /\ UNCHANGED <<mathCtx, mathResult, schlickIn, schlickOut, notFresnel>>

\* Fresnel::get, lines 509-520, on the contexts for which the root schlick
\* takes is rational
FresnelGet ==
    /\ mathExpr # None
    /\ mathResult = None
    /\ \E i \in FresnelContexts :
        \E a \in {FresnelCall(mathExpr[1], i)} :
          /\ RootIsRational(a.ref_index1, a.ref_index2, a.normal, a.incident)
          /\ mathCtx' = Some(i)
          /\ schlickIn' = Some(a)
          /\ \E r \in {schlick(a.ref_index1, a.ref_index2, a.normal, a.incident)} :
                schlickOut' = Some(r) /\ mathResult' = Some(r)
    /\ UNCHANGED <<mathExpr, exprVars, notFresnel>>

NextFresnel ==
    \/ FresnelBuild
    \/ FresnelGet

SpecFresnel == InitFresnel /\ [][NextFresnel]_vars

\* C18: Fresnel::get calls schlick(env_ior, ior, N, I) when I.N < 0 and
\* schlick(ior, env_ior, -N, I) when I.N >= 0; env_ior is the constant 1
\* when the expression has none; and schlick returns exactly 1 whenever
\* n1 > n2 and (n1/n2)^2 (1 - cos^2 psi) > 1.
C18_FresnelFaces ==
    /\ exprOut # None /\ exprOut[1].ok /\ exprIn[1].fields.env_ior = None =>
          exprOut[1].math.env_ior = Constant(One)
    /\ mathResult # None =>
          LET i == mathCtx[1]
              ior == MathGet(mathExpr[1].ior, i)
              env_ior == MathGet(mathExpr[1].env_ior, i)
              a == schlickIn[1]
              cos_psi == RNeg(Dot(a.normal, a.incident))
              n == RDiv(a.ref_index1, a.ref_index2)
          IN  /\ RLt(Dot(i.incident, i.normal), Zero) =>
                    a = [ref_index1 |-> env_ior, ref_index2 |-> ior,
                         normal |-> i.normal, incident |-> i.incident]
              /\ RGe(Dot(i.incident, i.normal), Zero) =>
                    a = [ref_index1 |-> ior, ref_index2 |-> env_ior,
                         normal |-> VNeg(i.normal), incident |-> i.incident]
              /\ mathResult = schlickOut
              /\ (/\ RGt(a.ref_index1, a.ref_index2)
                  /\ RGt(RMul(RMul(n, n), RSub(One, RMul(cos_psi, cos_psi))),
                         One))
                    => schlickOut = Some(One)

\* C18 witness: a Fresnel of ior 2 without env_ior was hit on its back face
\* at cos psi = 4/5: schlick(2, 1, -N, I) reflected totally.
C18_Witness ==
    /\ mathResult = Some(One)
    /\ exprIn[1].fields.env_ior = None
    /\ Dot(mathCtx[1].incident, mathCtx[1].normal) = R(4, 5)
    /\ schlickIn[1].ref_index1 = Num(2)
    /\ schlickIn[1].ref_index2 = One
    /\ schlickIn[1].normal = VNeg(UnitZ)

=============================================================================
